---------------------------- MODULE Spec2Model ----------------------------
(***************************************************************************)
(* State-machine model of the human-interaction simulation and throttling  *)
(* core of LinkedIn-Automator: the stealth controllers (mouse path,        *)
(* typing, scrolling, timing, activity scheduler) and the per-manager      *)
(* quota counters.                                                         *)
(*                                                                         *)
(* Conventions                                                             *)
(*  - A draw of rand.Float64() is an integer number of thousandths in      *)
(*    0..999 (the half-open interval [0,1)); a probability or a chance of  *)
(*    the configuration is a number of thousandths in 0..1000.             *)
(*  - time.Duration values of the typing and scrolling controllers are     *)
(*    counted in milliseconds; conversions float64 -> integer truncate     *)
(*    toward zero as Go's do.                                              *)
(*  - A Go string is its sequence of UTF-8 bytes; a rune is its code point.*)
(*  - Each controller has a program counter; "off" means the controller is *)
(*    not the one being driven in this behaviour.                          *)
(***************************************************************************)
EXTENDS Integers, Sequences, FiniteSets, TLC

VARIABLES
    \* ---- TypingController (GenerateKeystrokes / ExecuteTyping)
    text,        \* the input string, as UTF-8 bytes
    tcfg,        \* config.TypingConfig
    tpc,         \* position of the typing call
    tmode,       \* "generate": GenerateKeystrokes; "execute": ExecuteTyping
    ti,          \* loop index (position in runes, then in keystrokes)
    keystrokes,  \* the []KeyStroke built so far / returned
    tctx,        \* TRUE once ctx.Done() is closed
    tcalls,      \* the keystrokes typeFn / backspaceFn were called for, in order
    tret,        \* what ExecuteTyping returned
    tcancelAt,   \* history: index of the keystroke whose delay was being
                 \* waited out when the context was cancelled (0: none)
    \* ---- ScrollController (GenerateScrollSequence)
    sdist,       \* totalDistance
    scfg,        \* config.ScrollingConfig
    spc,         \* position of the call
    actions,     \* the []ScrollAction built so far / returned
    remaining,   \* the local of the same name
    \* ---- quota counters of ConnectionManager / Messenger
    qpc,         \* "idle", or "sending": a request has passed the gate
    qnow,        \* the wall clock, in hours
    qlim,        \* the daily and hourly limit of config.RateLimitConfig
    dailyCount,
    hourlyCount,
    lastReset,
    gate,        \* history: the last evaluation of the gate
    quota,       \* what GetRemainingQuota returned last
    recToday,    \* history: incrementCount calls made on the current date
    recHour,     \* history: incrementCount calls made in the current hour
    \* ---- TimingController (Sleep and the entry points that call it)
    slpc,        \* position of the call
    slapi,       \* the entry point called
    slcfg,       \* config.TimingConfig
    slarg,       \* the duration argument of Sleep / SleepWithJitter
    sld,         \* the duration d Sleep was entered with
    slctx,       \* TRUE once ctx.Done() is closed
    slret,       \* what Sleep returned
    \* ---- ActivityScheduler, working hours
    hpc,
    hcfg,        \* config.ScheduleConfig
    hnow,        \* the wall clock, in hours since a Sunday 00:00 UTC
    hlocal,      \* the offset of time.Local from UTC, in hours
    hwithin,     \* what IsWithinWorkingHours returned
    hfrom,       \* the instant WaitForWorkingHours was called at
    hnext,       \* nextStart of WaitForWorkingHours
    hfell,       \* getNextWorkingTime left its loop without finding a start
    hret,        \* what WaitForWorkingHours returned
    \* ---- ActivityScheduler, breaks
    bpc,
    bnow,        \* the wall clock, in minutes since the scheduler was made
    bctx,        \* TRUE once ctx.Done() is closed
    bret,        \* what TakeBreak returned
    lastBreak,
    breaksTaken,
    activityStart,
    bdur,        \* breakDuration of the running TakeBreak
    bpre,        \* history: breaksTaken and lastBreak when TakeBreak was called
    brandom,     \* config.ScheduleConfig.RandomBreaks
    bask,        \* history: the last ShouldTakeBreak call, its instant and result
    \* ---- MouseController (GeneratePath)
    ppc,
    pcfg,        \* config.MouseMovementConfig
    pstart,      \* start, in whole pixels
    pend,        \* end, in whole pixels
    path,        \* the []Point returned
    pover,       \* history: the overshoot branch was taken
    \* ---- TimingController.ExponentialBackoff, called by a retry loop
    ebpc,
    ebbase,      \* base
    ebcap,       \* maxDelay
    ebattempt,   \* attempt of the last call (-1: no call yet)
    ebresult,    \* what the last call returned
    ebprev,      \* history: attempt and result of the call before the last
    \* ---- Storage (two concurrent callers of one Add operation)
    stop,        \* the operation: "AddProfile", "AddConnection" or "AddMessage"
    stfile,      \* the list held by the operation's JSON file
    stpc,        \* per caller: "call", "loaded", "done"
    stlocal,     \* per caller: the list its load returned
    starg,       \* per caller: the profile URL of the item it adds
    \* ---- Searcher.filterDuplicates
    fpc,
    fresults,    \* the argument: SearchResults (Name numbers them)
    fstored,     \* the URLs of the profiles in storage
    ferr,        \* the positions at which ProfileExists returns an error
    funique,     \* what filterDuplicates returned
    \* ---- ScrollController.GenerateSmoothScrollSteps
    sspc,
    ssdelta,     \* the argument totalDelta
    sssmooth,    \* config.ScrollingConfig.SmoothScrolling
    ssstream,    \* the stream the draws of rand.Float64() come from
    sssteps,     \* what GenerateSmoothScrollSteps returned
    \* ---- Searcher.SearchAll
    sapc,
    saqueries,   \* per query of the configuration, per page: what the site shows
    samax,       \* config.SearchConfig.MaxResults
    sastored,    \* the URLs of the profiles in storage
    saq,         \* the query SearchAll is at
    sapage,      \* the page searchWithPagination is at
    saquery,     \* allResults of searchWithPagination
    saall,       \* allResults of SearchAll
    sanew,       \* history: the URLs Search saved to storage during the call
    saret,       \* the results SearchAll returned
    saerr,       \* whether SearchAll returned an error
    \* ---- ConnectionManager.ProcessProfiles
    pppc,
    ppprofiles,  \* the argument: the URLs of the unprocessed profiles
    ppquota,     \* how many requests the rate limit still allows
    ppi,         \* the profile the loop is at
    ppctx,       \* whether ctx is cancelled
    ppprocessed, \* storage: the URLs of the profiles marked processed
    ppsent,      \* the URLs a connection request was sent to
    ppresults,   \* the ConnectionResults collected, by their Message
    ppret,       \* the error ProcessProfiles returned
    ppcancelAt   \* history: the profile in hand, unsent, when ctx was cancelled

varsTyping == <<text, tcfg, tpc, tmode, ti, keystrokes, tctx, tcalls, tret, tcancelAt>>
varsScroll == <<sdist, scfg, spc, actions, remaining>>
varsQuota  == <<qpc, qnow, qlim, dailyCount, hourlyCount, lastReset, gate, quota, recToday,
               recHour>>
varsSleep  == <<slpc, slapi, slcfg, slarg, sld, slctx, slret>>
varsHours  == <<hpc, hcfg, hnow, hlocal, hwithin, hfrom, hnext, hfell, hret>>
varsBreak  == <<bpc, bnow, bctx, bret, lastBreak, breaksTaken, activityStart, bdur, bpre,
                brandom, bask>>
varsPath   == <<ppc, pcfg, pstart, pend, path, pover>>
varsBackoff == <<ebpc, ebbase, ebcap, ebattempt, ebresult, ebprev>>
varsStorage == <<stop, stfile, stpc, stlocal, starg>>
varsSearch  == <<fpc, fresults, fstored, ferr, funique>>
varsSmooth  == <<sspc, ssdelta, sssmooth, ssstream, sssteps>>
varsSearchAll == <<sapc, saqueries, samax, sastored, saq, sapage, saquery, saall, sanew,
                   saret, saerr>>
varsProcess == <<pppc, ppprofiles, ppquota, ppi, ppctx, ppprocessed, ppsent, ppresults,
                 ppret, ppcancelAt>>

vars == <<varsTyping, varsScroll, varsQuota, varsSleep, varsHours, varsBreak, varsPath,
          varsBackoff, varsStorage, varsSearch, varsSmooth, varsSearchAll, varsProcess>>

-----------------------------------------------------------------------------
(* Bounds of the model *)

\* longest input text of GenerateKeystrokes, in characters
MaxTextLen == 2
\* longest input text of ExecuteTyping, in characters
MaxExecLen == 2
\* largest totalDistance of GenerateScrollSequence
MaxDistance == 30
\* the calendar of the quota clock, scaled down: hours in a day, days in a
\* month, and the last hour the clock reaches
HoursPerDay == 3
DaysPerMonth == 2
MaxClock == 14
\* largest daily and hourly limit
MaxLimit == 2
\* largest duration argument of Sleep / SleepWithJitter, in milliseconds
MaxSleep == 3
\* the hours after the first week at which the working-hours gate is asked
MaxHours == 167
\* the breaks of one session, and its length in minutes
MaxBreaks == 4
MaxMinutes == 60
\* the width in bits of time.Duration (int64), scaled down
DurationBits == 8
\* the largest attempt handed to ExponentialBackoff, and the largest base
MaxAttempt == 9
MaxBase == 3
\* the longest list a storage file holds before the concurrent calls
MaxStored == 1
\* the longest argument of filterDuplicates
MaxResults == 3
\* the largest chunk, up or down, handed to GenerateSmoothScrollSteps
MaxChunk == 125

-----------------------------------------------------------------------------
(* Arithmetic helpers *)

\* Go's conversion of a float64 quotient n/d (d > 0) to an integer type
Trunc(n, d) == IF n >= 0 THEN n \div d ELSE -((-n) \div d)

\* the draws of rand.Float64() the model tries: both ends and the middle
FloatDraws == {0, 500, 999}

\* the draws of rand.Intn(n) / rand.Int63n(n) the model tries: both ends
IntnDraws(n) == {0, n - 1}

\* rand.Float64() <= chance: a chance of zero still hits on a draw of zero
HitInclusive(draw, chance) == draw <= chance

\* rand.Float64() < chance
Hit(draw, chance) == draw < chance

-----------------------------------------------------------------------------
(* Runes and strings *)

\* the characters input texts are made of:
\* 'a' 's' (neighbours on a keyboard row), ' ', 'A', '@', and U+00E9 (two bytes)
Runes == {97, 115, 32, 65, 64, 233}

\* UTF-8 encoding of one code point below U+0800
EncodeRune(r) ==
    IF r < 128 THEN <<r>>
    ELSE <<192 + (r \div 64), 128 + (r % 64)>>

RECURSIVE EncodeString(_)
EncodeString(rs) ==
    IF rs = <<>> THEN <<>>
    ELSE EncodeRune(Head(rs)) \o EncodeString(Tail(rs))

\* utf8.DecodeRuneInString at byte offset i (1-based): <<rune, width>>;
\* an invalid or truncated sequence decodes to U+FFFD of width 1
DecodeRuneAt(s, i) ==
    LET b == s[i] IN
    IF b < 128 THEN <<b, 1>>
    ELSE IF b >= 192 /\ b < 224 /\ i + 1 <= Len(s) /\ s[i + 1] >= 128 /\ s[i + 1] < 192
         THEN <<(b - 192) * 64 + (s[i + 1] - 128), 2>>
         ELSE <<65533, 1>>

\* []rune(text)
RECURSIVE RunesFrom(_, _)
RunesFrom(s, i) ==
    IF i > Len(s) THEN <<>>
    ELSE LET d == DecodeRuneAt(s, i) IN <<d[1]>> \o RunesFrom(s, i + d[2])

ToRunes(s) == RunesFrom(s, 1)

\* unicode.IsSpace on Latin-1
IsSpace(r) == r \in {9, 10, 11, 12, 13, 32, 133, 160}

\* unicode.IsUpper on Latin-1
IsUpper(r) == r \in (65..90) \cup ((192..222) \ {215})

\* unicode.ToLower / unicode.ToUpper on Latin-1
ToLower(r) == IF IsUpper(r) THEN r + 32 ELSE r
ToUpper(r) == IF r \in (97..122) \cup ((224..254) \ {247}) THEN r - 32 ELSE r

\* strings.IndexRune(row, r), 0-based, -1 when absent
IndexRune(row, r) ==
    IF \E k \in 1..Len(row) : row[k] = r
    THEN (CHOOSE k \in 1..Len(row) : row[k] = r) - 1
    ELSE -1

abs(x) == IF x < 0 THEN -x ELSE x

-----------------------------------------------------------------------------
(* TypingController *)

KeyStroke(char, delay, isTypo, backspace) ==
    [Char |-> char, Delay |-> delay, IsTypo |-> isTypo, Backspace |-> backspace]

\* the zero value of the KeyStroke struct
ZeroKeyStroke == KeyStroke(0, 0, FALSE, FALSE)

keyboardRows ==
    << <<113, 119, 101, 114, 116, 121, 117, 105, 111, 112>>,   \* "qwertyuiop"
       <<97, 115, 100, 102, 103, 104, 106, 107, 108>>,         \* "asdfghjkl"
       <<122, 120, 99, 118, 98, 110, 109>> >>                  \* "zxcvbnm"

areAdjacent(prev, curr) ==
    \E k \in 1..Len(keyboardRows) :
        LET prevIdx == IndexRune(keyboardRows[k], ToLower(prev))
            currIdx == IndexRune(keyboardRows[k], ToLower(curr))
        IN  prevIdx >= 0 /\ currIdx >= 0 /\ abs(prevIdx - currIdx) = 1

\* the neighbours of a key; <<>> for a key the table does not hold
keyboardLayout(c) ==
    CASE c = 113 -> <<119, 97>>                        \* 'q'
      [] c = 119 -> <<113, 101, 115, 97>>              \* 'w'
      [] c = 101 -> <<119, 114, 100, 115>>             \* 'e'
      [] c = 114 -> <<101, 116, 102, 100>>             \* 'r'
      [] c = 116 -> <<114, 121, 103, 102>>             \* 't'
      [] c = 121 -> <<116, 117, 104, 103>>             \* 'y'
      [] c = 117 -> <<121, 105, 106, 104>>             \* 'u'
      [] c = 105 -> <<117, 111, 107, 106>>             \* 'i'
      [] c = 111 -> <<105, 112, 108, 107>>             \* 'o'
      [] c = 112 -> <<111, 108>>                       \* 'p'
      [] c = 97 -> <<113, 119, 115, 122>>              \* 'a'
      [] c = 115 -> <<97, 119, 101, 100, 120, 122>>    \* 's'
      [] c = 100 -> <<115, 101, 114, 102, 99, 120>>    \* 'd'
      [] c = 102 -> <<100, 114, 116, 103, 118, 99>>    \* 'f'
      [] c = 103 -> <<102, 116, 121, 104, 98, 118>>    \* 'g'
      [] c = 104 -> <<103, 121, 117, 106, 110, 98>>    \* 'h'
      [] c = 106 -> <<104, 117, 105, 107, 109, 110>>   \* 'j'
      [] c = 107 -> <<106, 105, 111, 108, 109>>        \* 'k'
      [] c = 108 -> <<107, 111, 112>>                  \* 'l'
      [] c = 122 -> <<97, 115, 120>>                   \* 'z'
      [] c = 120 -> <<122, 115, 100, 99>>              \* 'x'
      [] c = 99 -> <<120, 100, 102, 118>>              \* 'c'
      [] c = 118 -> <<99, 102, 103, 98>>               \* 'v'
      [] c = 98 -> <<118, 103, 104, 110>>              \* 'b'
      [] c = 110 -> <<98, 104, 106, 109>>              \* 'n'
      [] c = 109 -> <<110, 106, 107>>                  \* 'm'
      [] OTHER -> <<>>

\* generateTypo(char); pick is the draw of rand.Intn(len(adjacent))
generateTypo(char, pick) ==
    LET adjacent == keyboardLayout(ToLower(char)) IN
    IF adjacent # <<>>
    THEN LET typo == adjacent[pick + 1] IN
         IF IsUpper(char) THEN ToUpper(typo) ELSE typo
    ELSE char

\* the characters of "@#$%^&*()_+{}|:<>?"
SlowSymbols == {64, 35, 36, 37, 94, 38, 42, 40, 41, 95, 43, 123, 125, 124, 58, 60, 62, 63}

\* calculateKeyDelay(char, position, text); position is 1-based here.
\* n is the draw of rand.Int63n(Max-Min), f the draw of rand.Float64().
calculateKeyDelay(cfg, char, position, runes, n, f) ==
    LET b0 == cfg.MinKeyDelay + n
        b1 == IF IsSpace(char) THEN Trunc(b0 * 7, 10) ELSE b0
        b2 == IF IsUpper(char) THEN Trunc(b1 * 13, 10) ELSE b1
        b3 == IF char \in SlowSymbols THEN Trunc(b2 * 15, 10) ELSE b2
        b4 == IF position > 1 /\ areAdjacent(runes[position - 1], char)
              THEN Trunc(b3 * 85, 100) ELSE b3
        \* float64(base) * 0.2 * (f*2 - 1)
        variation == Trunc(b4 * 2 * (2 * f - 1000), 10000)
    IN  b4 + variation

\* isWordBoundary(position, text); position is 1-based here
isWordBoundary(position, runes) ==
    IF position = 1 THEN FALSE
    ELSE ~IsSpace(runes[position - 1]) /\ IsSpace(runes[position])

\* The disabled branch: make([]KeyStroke, len(text)) is as long as the string
\* has BYTES, and "for i, char := range text" yields the byte offset of each
\* character; the slots in between keep the zero value.
RECURSIVE RangeFill(_, _, _)
RangeFill(s, i, ks) ==
    IF i > Len(s) THEN ks
    ELSE LET d == DecodeRuneAt(s, i) IN
         RangeFill(s, i + d[2], [ks EXCEPT ![i] = KeyStroke(d[1], 0, FALSE, FALSE)])

DisabledKeystrokes(s) == RangeFill(s, 1, [i \in 1..Len(s) |-> ZeroKeyStroke])

\* the pairs of draws (rand.Int63n(Max-Min), rand.Float64()) one call of
\* calculateKeyDelay makes: the shortest and the longest delay
DelayDraws(cfg) ==
    {<<0, 0>>, <<cfg.MaxKeyDelay - cfg.MinKeyDelay - 1, 999>>}

\* the draws of rand.Intn(len(adjacent)) in generateTypo(char): none is made
\* (0 stands for it) when the table does not hold the key
TypoPicks(char) ==
    IF keyboardLayout(ToLower(char)) = <<>> THEN {0}
    ELSE IntnDraws(Len(keyboardLayout(ToLower(char))))

\* an iteration that does not spare whitespace from typos
KeystrokesForAnyChar(cfg, runes, i, fThink, nPause, fTypo, pick, d1, d2) ==
    LET char  == runes[i]
        delay == calculateKeyDelay(cfg, char, i, runes, d1[1], d1[2])
              +  (IF Hit(fThink, cfg.ThinkPauseChance) /\ isWordBoundary(i, runes)
                  THEN 500 + nPause ELSE 0)
    IN  IF Hit(fTypo, cfg.TypoChance)
        THEN << KeyStroke(generateTypo(char, pick), delay, TRUE, FALSE),
                KeyStroke(0, cfg.CorrectionDelay, FALSE, TRUE),
                KeyStroke(char, calculateKeyDelay(cfg, char, i, runes, d2[1], d2[2]),
                          FALSE, FALSE) >>
        ELSE << KeyStroke(char, delay, FALSE, FALSE) >>

\* One iteration of the loop of GenerateKeystrokes over runes[i].
\* fThink, fTypo: the two draws of rand.Float64(); nPause: rand.Intn(1500);
\* d1, d2: the draws of the two calculateKeyDelay calls; pick: rand.Intn in
\* generateTypo.
KeystrokesFor(cfg, runes, i, fThink, nPause, fTypo, pick, d1, d2) ==
    LET char  == runes[i]
        delay == calculateKeyDelay(cfg, char, i, runes, d1[1], d1[2])
              +  (IF Hit(fThink, cfg.ThinkPauseChance) /\ isWordBoundary(i, runes)
                  THEN 500 + nPause ELSE 0)
    IN  IF Hit(fTypo, cfg.TypoChance) /\ ~IsSpace(char)
        THEN << KeyStroke(generateTypo(char, pick), delay, TRUE, FALSE),
                KeyStroke(0, cfg.CorrectionDelay, FALSE, TRUE),
                KeyStroke(char, calculateKeyDelay(cfg, char, i, runes, d2[1], d2[2]),
                          FALSE, FALSE) >>
        ELSE << KeyStroke(char, delay, FALSE, FALSE) >>

\* TypingDuration(text): the delays of the keystrokes generated for text,
\* added up (the first n of ks)
RECURSIVE SumDelay(_, _)
SumDelay(ks, n) == IF n = 0 THEN 0 ELSE SumDelay(ks, n - 1) + ks[n].Delay

TypingDuration(ks) == SumDelay(ks, Len(ks))

TypingStays == UNCHANGED <<text, tcfg, tmode>> /\ UNCHANGED <<varsScroll, varsQuota, varsSleep, varsHours, varsBreak, varsPath, varsBackoff, varsStorage, varsSearch, varsSmooth, varsSearchAll, varsProcess>>

\* GenerateKeystrokes with typing disabled: lines 272-278
GenerateDisabled ==
    /\ tpc = "gen" /\ ~tcfg.Enabled
    /\ keystrokes' = DisabledKeystrokes(text)
    /\ tpc' = IF tmode = "execute" THEN "exec" ELSE "done"
    /\ ti' = 1
    /\ TypingStays /\ UNCHANGED <<tctx, tcalls, tret, tcancelAt>>

\* rand.Int63n(n) panics for n <= 0: MinKeyDelay = MaxKeyDelay
GeneratePanic ==
    /\ tpc = "gen" /\ tcfg.Enabled
    /\ ti <= Len(ToRunes(text))
    /\ tcfg.MaxKeyDelay - tcfg.MinKeyDelay <= 0
    /\ tpc' = "panic"
    /\ TypingStays /\ UNCHANGED <<ti, keystrokes, tctx, tcalls, tret, tcancelAt>>

\* one iteration of "for i, char := range runes": lines 283-316
GenerateStep ==
    /\ tpc = "gen" /\ tcfg.Enabled
    /\ ti <= Len(ToRunes(text))
    /\ tcfg.MaxKeyDelay - tcfg.MinKeyDelay > 0
    /\ \E fThink \in FloatDraws, nPause \in IntnDraws(1500), fTypo \in FloatDraws,
          pick \in TypoPicks(ToRunes(text)[ti]),
          d1 \in DelayDraws(tcfg), d2 \in DelayDraws(tcfg) :
          keystrokes' = keystrokes \o
              KeystrokesFor(tcfg, ToRunes(text), ti, fThink, nPause, fTypo, pick, d1, d2)
    /\ ti' = ti + 1
    /\ TypingStays /\ UNCHANGED <<tpc, tctx, tcalls, tret, tcancelAt>>

\* the loop is over: return keystrokes (line 318)
GenerateReturn ==
    /\ tpc = "gen" /\ tcfg.Enabled
    /\ ti > Len(ToRunes(text))
    /\ tpc' = IF tmode = "execute" THEN "exec" ELSE "done"
    /\ ti' = 1
    /\ TypingStays /\ UNCHANGED <<keystrokes, tctx, tcalls, tret, tcancelAt>>

\* ExecuteTyping, top of the loop body: the non-blocking select on ctx.Done()
ExecutePoll ==
    /\ tpc = "exec" /\ ti <= Len(keystrokes)
    /\ IF tctx
       THEN tpc' = "returned" /\ tret' = "canceled"
       ELSE tpc' = (IF keystrokes[ti].Delay > 0 THEN "sleep" ELSE "invoke")
            /\ tret' = tret
    /\ TypingStays /\ UNCHANGED <<ti, keystrokes, tctx, tcalls, tcancelAt>>

\* time.Sleep(ks.Delay) returns: it does not look at the context
ExecuteSleep ==
    /\ tpc = "sleep"
    /\ tpc' = "invoke"
    /\ TypingStays /\ UNCHANGED <<ti, keystrokes, tctx, tcalls, tret, tcancelAt>>

\* backspaceFn() or typeFn(ks.Char); failed: the callback returned an error
ExecuteInvoke ==
    /\ tpc = "invoke"
    /\ tcalls' = Append(tcalls, ti)
    /\ \E failed \in BOOLEAN :
          IF failed
          THEN tpc' = "returned" /\ tret' = "fnerr" /\ ti' = ti
          ELSE tpc' = "exec" /\ tret' = tret /\ ti' = ti + 1
    /\ TypingStays /\ UNCHANGED <<keystrokes, tctx, tcancelAt>>

\* the loop over keystrokes is over: return nil
ExecuteReturn ==
    /\ tpc = "exec" /\ ti > Len(keystrokes)
    /\ tpc' = "returned" /\ tret' = "nil"
    /\ TypingStays /\ UNCHANGED <<ti, keystrokes, tctx, tcalls, tcancelAt>>

\* the caller cancels the context of a running ExecuteTyping
CancelTyping ==
    /\ tmode = "execute" /\ tpc \in {"gen", "exec", "sleep", "invoke"}
    /\ ~tctx
    /\ tctx' = TRUE
    /\ tcancelAt' = IF tpc = "sleep" THEN ti ELSE 0
    /\ TypingStays /\ UNCHANGED <<tpc, ti, keystrokes, tcalls, tret>>

SeqsUpTo(S, n) == UNION {[1..k -> S] : k \in 0..n}

\* the configurations tried: disabled; enabled with every combination of
\* chances; and MinKeyDelay = MaxKeyDelay
TypingConfigs ==
    {[Enabled |-> FALSE, MinKeyDelay |-> 50, MaxKeyDelay |-> 150,
      TypoChance |-> 500, CorrectionDelay |-> 300, ThinkPauseChance |-> 500]}
    \cup
    [Enabled : {TRUE}, MinKeyDelay : {50}, MaxKeyDelay : {150},
     TypoChance : {0, 500, 1000}, CorrectionDelay : {300},
     ThinkPauseChance : {0, 500}]
    \cup
    {[Enabled |-> TRUE, MinKeyDelay |-> 50, MaxKeyDelay |-> 50,
      TypoChance |-> 0, CorrectionDelay |-> 300, ThinkPauseChance |-> 0]}

TypingOff ==
    /\ text = <<>> /\ tcfg = [Enabled |-> FALSE] /\ tpc = "off" /\ tmode = "generate"
    /\ ti = 0 /\ keystrokes = <<>> /\ tctx = FALSE /\ tcalls = <<>>
    /\ tret = "none" /\ tcancelAt = 0

\* a call of GenerateKeystrokes(text)
InitGenerate ==
    /\ text \in {EncodeString(rs) : rs \in SeqsUpTo(Runes, MaxTextLen)}
    /\ tcfg \in TypingConfigs
    /\ tpc = "gen" /\ tmode = "generate" /\ ti = 1 /\ keystrokes = <<>>
    /\ tctx = FALSE /\ tcalls = <<>> /\ tret = "none" /\ tcancelAt = 0

\* a call of ExecuteTyping(ctx, typeFn, backspaceFn, text), the context
\* cancelled already or not
InitExecute ==
    /\ text \in {EncodeString(rs) : rs \in SeqsUpTo({97, 32, 233}, MaxExecLen)}
    /\ tcfg \in {c \in TypingConfigs : ~c.Enabled \/ c.ThinkPauseChance = 0}
    /\ tpc = "gen" /\ tmode = "execute" /\ ti = 1 /\ keystrokes = <<>>
    /\ tctx \in BOOLEAN /\ tcalls = <<>> /\ tret = "none" /\ tcancelAt = 0

NextGenerate ==
    \/ GenerateDisabled
    \/ GeneratePanic
    \/ GenerateStep
    \/ GenerateReturn

NextExecute ==
    \/ ExecutePoll
    \/ ExecuteSleep
    \/ ExecuteInvoke
    \/ ExecuteReturn
    \/ CancelTyping

-----------------------------------------------------------------------------
(* ScrollController *)

ScrollAction(delta, duration, direction) ==
    [Delta |-> delta, Duration |-> duration, Direction |-> direction]

\* calculateScrollAmount(remaining, speed); n is the draw of
\* rand.Intn(speed/2), f the draw of rand.Float64()
calculateScrollAmount(rem, speed, n, f) ==
    LET baseAmount == speed + n
        \* int(float64(baseAmount) + float64(baseAmount)*0.2*(f*2-1))
        amount == Trunc(baseAmount * (5000 + 2 * f - 1000), 5000)
        capped == IF amount > rem THEN rem ELSE amount
    IN  IF capped < 10 THEN 10 ELSE capped

\* calculateScrollDuration(distance), in milliseconds; f is the draw of
\* rand.Float64() (smooth) and n the draw of rand.Intn(100) (otherwise)
calculateScrollDuration(cfg, distance, f, n) ==
    IF cfg.SmoothScrolling
    THEN \* time.Duration(distance/2 + distance/2*0.3*(f*2-1)) * time.Millisecond
         Trunc(distance * (7000 + 6 * f), 20000)
    ELSE 50 + n

ScrollStays == UNCHANGED <<sdist, scfg>> /\ UNCHANGED <<varsTyping, varsQuota, varsSleep, varsHours, varsBreak, varsPath, varsBackoff, varsStorage, varsSearch, varsSmooth, varsSearchAll, varsProcess>>

\* a disabled branch that turns a negative distance into an "up" action
\* of the absolute distance
ScrollDisabledAbsolute ==
    /\ spc = "gen" /\ ~scfg.Enabled
    /\ actions' = <<ScrollAction(abs(sdist), 0, IF sdist < 0 THEN "up" ELSE "down")>>
    /\ spc' = "done"
    /\ ScrollStays /\ UNCHANGED remaining

\* GenerateScrollSequence with scrolling disabled: lines 36-38
ScrollDisabled ==
    /\ spc = "gen" /\ ~scfg.Enabled
    /\ actions' = <<ScrollAction(sdist, 0, "down")>>
    /\ spc' = "done"
    /\ ScrollStays /\ UNCHANGED remaining

\* rand.Intn(speed/2) panics for speed/2 <= 0
ScrollPanic ==
    /\ spc = "gen" /\ scfg.Enabled /\ remaining > 0
    /\ \E k \in IntnDraws(scfg.MaxScrollSpeed - scfg.MinScrollSpeed + 1) :
          (scfg.MinScrollSpeed + k) \div 2 <= 0
    /\ spc' = "panic"
    /\ ScrollStays /\ UNCHANGED <<actions, remaining>>

\* one iteration of "for remaining > 0": lines 44-75
ScrollStep ==
    /\ spc = "gen" /\ scfg.Enabled /\ remaining > 0
    /\ \E k \in IntnDraws(scfg.MaxScrollSpeed - scfg.MinScrollSpeed + 1) :
       LET speed == scfg.MinScrollSpeed + k IN
       /\ speed \div 2 > 0
       /\ \E n \in IntnDraws(speed \div 2), f \in {0, 999},
             fBack \in {0, 999}, fPause \in {0, 999} :
          LET scrollAmount == calculateScrollAmount(remaining, speed, n, f)
              backAmount   == scrollAmount \div 3
              back  == IF remaining > scrollAmount * 2 /\ Hit(fBack, scfg.ScrollBackChance)
                       THEN <<ScrollAction(backAmount,
                                  calculateScrollDuration(scfg, backAmount, 500, 50), "up")>>
                       ELSE <<>>
              fwd   == <<ScrollAction(scrollAmount,
                             calculateScrollDuration(scfg, scrollAmount, 500, 50), "down")>>
              pause == IF Hit(fPause, scfg.PauseChance)
                       THEN <<ScrollAction(0, 500 + 1000, "pause")>>
                       ELSE <<>>
          IN  /\ actions' = actions \o back \o fwd \o pause
              /\ remaining' = remaining - scrollAmount
    /\ ScrollStays /\ UNCHANGED spc

\* the loop is over: return actions (line 77)
ScrollReturn ==
    /\ spc = "gen" /\ scfg.Enabled /\ remaining <= 0
    /\ spc' = "done"
    /\ ScrollStays /\ UNCHANGED <<actions, remaining>>

\* the configurations tried: disabled; enabled with and without scroll-back
\* and pauses; and a speed of 1
ScrollConfigs ==
    [Enabled : BOOLEAN, MinScrollSpeed : {8}, MaxScrollSpeed : {14},
     ScrollBackChance : {0, 500}, PauseChance : {0, 500}, SmoothScrolling : BOOLEAN]
    \cup
    {[Enabled |-> TRUE, MinScrollSpeed |-> 1, MaxScrollSpeed |-> 1,
      ScrollBackChance |-> 0, PauseChance |-> 0, SmoothScrolling |-> FALSE]}

ScrollOff ==
    /\ sdist = 0 /\ scfg = [Enabled |-> FALSE] /\ spc = "off"
    /\ actions = <<>> /\ remaining = 0

\* a call of GenerateScrollSequence(totalDistance)
InitScroll ==
    /\ sdist \in (-MaxDistance)..MaxDistance
    /\ scfg \in ScrollConfigs
    /\ spc = "gen" /\ actions = <<>> /\ remaining = sdist

NextScroll ==
    \/ ScrollDisabled
    \/ ScrollPanic
    \/ ScrollStep
    \/ ScrollReturn

-----------------------------------------------------------------------------
(* Quota counters of ConnectionManager (and, line for line, of Messenger) *)

\* The wall clock of the quota counters counts hours. time.Time's Day() is
\* the day of the MONTH and Hour() the hour of the day.
DateOf(t) == t \div HoursPerDay
DayOf(t)  == (DateOf(t) % DaysPerMonth) + 1
HourOf(t) == t % HoursPerDay

\* a reset that zeroes hourlyCount at every check
checkAndResetCountsEveryCheck(daily, hourly, stamp, now) ==
    IF DayOf(now) # DayOf(stamp)
    THEN [dailyCount |-> 0, hourlyCount |-> 0, lastReset |-> now]
    ELSE [dailyCount |-> daily, hourlyCount |-> 0, lastReset |-> now]

\* a reset that zeroes both counters when only the hour changed
checkAndResetCountsHourClearsDay(daily, hourly, stamp, now) ==
    IF DayOf(now) # DayOf(stamp) \/ HourOf(now) # HourOf(stamp)
    THEN [dailyCount |-> 0, hourlyCount |-> 0, lastReset |-> now]
    ELSE [dailyCount |-> daily, hourlyCount |-> hourly, lastReset |-> stamp]

\* checkAndResetCounts at instant now: the counters and stamp afterwards
checkAndResetCounts(daily, hourly, stamp, now) ==
    IF DayOf(now) # DayOf(stamp)
    THEN [dailyCount |-> 0, hourlyCount |-> 0, lastReset |-> now]
    ELSE IF HourOf(now) # HourOf(stamp)
         THEN [dailyCount |-> daily, hourlyCount |-> 0, lastReset |-> now]
         ELSE [dailyCount |-> daily, hourlyCount |-> hourly, lastReset |-> stamp]

\* a gate that lets one action too many through
GateOpenAtLimit(c, lim) ==
    ~(c.dailyCount > lim.DailyLimit) /\ ~(c.hourlyCount > lim.HourlyLimit)

\* canSendConnection / canSendMessage, after the reset: the comparison
GateOpen(c, lim) ==
    ~(c.dailyCount >= lim.DailyLimit) /\ ~(c.hourlyCount >= lim.HourlyLimit)

QuotaStays == UNCHANGED qlim /\ UNCHANGED <<varsTyping, varsScroll, varsSleep, varsHours, varsBreak, varsPath, varsBackoff, varsStorage, varsSearch, varsSmooth, varsSearchAll, varsProcess>>

\* the gate is evaluated at instant qnow; go tells what the caller does next
Gate(go) ==
    LET c == checkAndResetCounts(dailyCount, hourlyCount, lastReset, qnow) IN
    /\ dailyCount' = c.dailyCount
    /\ hourlyCount' = c.hourlyCount
    /\ lastReset' = c.lastReset
    /\ gate' = [result |-> IF GateOpen(c, qlim) THEN "open" ELSE "closed",
                at |-> qnow, stampBefore |-> lastReset, recorded |-> recToday,
                recordedHour |-> recHour]
    /\ qpc' = IF GateOpen(c, qlim) THEN go ELSE "idle"

\* ProcessProfiles / SendFollowUpToNewConnections: the gate checked by the
\* batch loop before it calls the sender
CanSend ==
    /\ qpc = "idle"
    /\ Gate("idle")
    /\ QuotaStays /\ UNCHANGED <<qnow, quota, recToday, recHour>>

\* SendConnectionRequest / SendMessage, up to the gate: "Rate limit reached"
\* is returned when it is closed, else the request is under way
SendBegin ==
    /\ qpc = "idle"
    /\ Gate("sending")
    /\ QuotaStays /\ UNCHANGED <<qnow, quota, recToday, recHour>>

\* the request ends early (already connected, navigation or click failure,
\* cancelled sleep): nothing is recorded
SendAbort ==
    /\ qpc = "sending"
    /\ qpc' = "idle"
    /\ QuotaStays
    /\ UNCHANGED <<qnow, dailyCount, hourlyCount, lastReset, gate, quota, recToday, recHour>>

\* the request went through: incrementCount
SendRecord ==
    /\ qpc = "sending"
    /\ dailyCount' = dailyCount + 1
    /\ hourlyCount' = hourlyCount + 1
    /\ recToday' = recToday + 1
    /\ recHour' = recHour + 1
    /\ gate' = [gate EXCEPT !.result = "none"]
    /\ qpc' = "idle"
    /\ QuotaStays /\ UNCHANGED <<qnow, lastReset, quota>>

\* GetRemainingQuota
GetRemainingQuota ==
    /\ qpc = "idle"
    /\ LET c == checkAndResetCounts(dailyCount, hourlyCount, lastReset, qnow) IN
       /\ dailyCount' = c.dailyCount
       /\ hourlyCount' = c.hourlyCount
       /\ lastReset' = c.lastReset
       /\ quota' = <<qlim.DailyLimit - c.dailyCount, qlim.HourlyLimit - c.hourlyCount>>
    /\ QuotaStays /\ UNCHANGED <<qnow, qpc, gate, recToday, recHour>>

\* an hour passes, while idle or during the page loads and sleeps of a request
QuotaTick ==
    /\ qpc \in {"idle", "sending"}
    /\ qnow < MaxClock
    /\ qnow' = qnow + 1
    /\ recToday' = IF DateOf(qnow + 1) # DateOf(qnow) THEN 0 ELSE recToday
    /\ recHour' = 0
    /\ QuotaStays
    /\ UNCHANGED <<qpc, dailyCount, hourlyCount, lastReset, gate, quota>>

NoGate ==
    [result |-> "none", at |-> 0, stampBefore |-> 0, recorded |-> 0, recordedHour |-> 0]

QuotaOff ==
    /\ qpc = "off" /\ qnow = 0 /\ qlim = [DailyLimit |-> 0, HourlyLimit |-> 0]
    /\ dailyCount = 0 /\ hourlyCount = 0 /\ lastReset = 0
    /\ gate = NoGate /\ quota = <<0, 0>> /\ recToday = 0 /\ recHour = 0

\* New(): zeroed counters, lastReset = time.Now(), at any hour of the first day
InitQuota ==
    /\ qpc = "idle"
    /\ qnow \in 0..(HoursPerDay - 1)
    /\ qlim \in [DailyLimit : 0..MaxLimit, HourlyLimit : 0..MaxLimit]
    /\ dailyCount = 0 /\ hourlyCount = 0 /\ lastReset = qnow
    /\ gate = NoGate /\ quota = <<0, 0>> /\ recToday = 0 /\ recHour = 0

NextQuota ==
    \/ CanSend
    \/ SendBegin
    \/ SendAbort
    \/ SendRecord
    \/ GetRemainingQuota
    \/ QuotaTick

-----------------------------------------------------------------------------
(* TimingController.Sleep *)

\* select { case <-ctx.Done(): ...; case <-time.After(d): ... }
\* A select with several ready cases takes any of them; with none it parks
\* the goroutine until the first of them becomes ready.
SleepOutcomes(ctxDone, d) ==
    (IF ctxDone THEN {"canceled"} ELSE {}) \cup (IF d <= 0 THEN {"nil"} ELSE {})

\* a RandomDelay that does not clamp its result to min
RandomDelayUnclamped(cfg, min, max, n, f) ==
    IF min >= max THEN min
    ELSE LET base == min + n
         IN  base + Trunc(base * cfg.HumanVariation * (2 * f - 1000), 1000 * 1000)

\* RandomDelay(min, max), in milliseconds; n is the draw of
\* rand.Int63n(max-min), f the draw of rand.Float64()
RandomDelay(cfg, min, max, n, f) ==
    IF min >= max THEN min
    ELSE LET base == min + n
             \* float64(base) * HumanVariation * (f*2 - 1)
             variation == Trunc(base * cfg.HumanVariation * (2 * f - 1000), 1000 * 1000)
             final == base + variation
         IN  IF final < min THEN min ELSE final

\* every value RandomDelay(min, max) takes over the draws tried
RandomDelays(cfg, min, max) ==
    IF min >= max THEN {min}
    ELSE {RandomDelay(cfg, min, max, n, f) : n \in IntnDraws(max - min), f \in FloatDraws}

ActionDelays(cfg) == RandomDelays(cfg, cfg.MinActionDelay, cfg.MaxActionDelay)

ThinkDelays(cfg) == RandomDelays(cfg, cfg.MinThinkTime, cfg.MaxThinkTime)

\* PageLoadDelay: base + time.Duration(float64(base) * HumanVariation * f)
PageLoadDelay(cfg, f) ==
    cfg.PageLoadWait + Trunc(cfg.PageLoadWait * cfg.HumanVariation * f, 1000 * 1000)

\* the duration SleepWithJitter(ctx, base) sleeps
JitterDelay(base, f) == base + Trunc(base * 2 * (2 * f - 1000), 10000)

\* the durations the entry point api hands to Sleep
SleepDurations(api, cfg, arg) ==
    CASE api = "Sleep"           -> {arg}
      [] api = "SleepAction"     -> ActionDelays(cfg)
      [] api = "SleepThink"      -> ThinkDelays(cfg)
      [] api = "SleepPageLoad"   -> {PageLoadDelay(cfg, f) : f \in FloatDraws}
      [] api = "SleepWithJitter" -> {JitterDelay(arg, f) : f \in FloatDraws}

SleepStays == UNCHANGED <<slapi, slcfg, slarg>> /\ UNCHANGED <<varsTyping, varsScroll, varsQuota, varsHours, varsBreak, varsPath, varsBackoff, varsStorage, varsSearch, varsSmooth, varsSearchAll, varsProcess>>

\* Sleep(ctx, d) is entered (directly or from SleepAction, SleepThink,
\* SleepPageLoad, SleepWithJitter): time.After(d) is armed and the select runs
SleepCall ==
    /\ slpc = "idle"
    /\ \E d \in SleepDurations(slapi, slcfg, slarg) :
          /\ sld' = d
          /\ IF SleepOutcomes(slctx, d) = {}
             THEN slpc' = "parked" /\ slret' = slret
             ELSE slpc' = "returned" /\ slret' \in SleepOutcomes(slctx, d)
    /\ SleepStays /\ UNCHANGED slctx

\* the timer of time.After(d) fires while the goroutine is parked
SleepTimer ==
    /\ slpc = "parked"
    /\ slpc' = "returned" /\ slret' = "nil"
    /\ SleepStays /\ UNCHANGED <<sld, slctx>>

\* the context is cancelled: before the call, or while the goroutine is
\* parked (it then wakes up in the ctx.Done() case)
SleepCancel ==
    /\ slpc \in {"idle", "parked"}
    /\ ~slctx
    /\ slctx' = TRUE
    /\ IF slpc = "parked"
       THEN slpc' = "returned" /\ slret' = "canceled"
       ELSE slpc' = slpc /\ slret' = slret
    /\ SleepStays /\ UNCHANGED sld

\* the timing configurations tried: the one of TestTimingDelays, the one of
\* TestScrollController (think time and page load wait left zero), and one
\* at the edges: HumanVariation 1, a range of one, a range with min > max
TimingConfigs ==
    {[MinActionDelay |-> 100, MaxActionDelay |-> 500, MinThinkTime |-> 200,
      MaxThinkTime |-> 1000, PageLoadWait |-> 1000, HumanVariation |-> 300],
     [MinActionDelay |-> 50, MaxActionDelay |-> 100, MinThinkTime |-> 0,
      MaxThinkTime |-> 0, PageLoadWait |-> 0, HumanVariation |-> 0],
     [MinActionDelay |-> 100, MaxActionDelay |-> 101, MinThinkTime |-> 300,
      MaxThinkTime |-> 200, PageLoadWait |-> 0, HumanVariation |-> 1000]}

SleepApis == {"Sleep", "SleepAction", "SleepThink", "SleepPageLoad", "SleepWithJitter"}

SleepOff ==
    /\ slpc = "off" /\ slapi = "Sleep" /\ slcfg = [HumanVariation |-> 0]
    /\ slarg = 0 /\ sld = 0 /\ slctx = FALSE /\ slret = "none"

\* a call of one of the sleeping entry points is about to be made, the
\* context cancelled already or not
InitSleep ==
    /\ slpc = "idle"
    /\ slapi \in SleepApis
    /\ slcfg \in TimingConfigs
    /\ slarg \in IF slapi \in {"Sleep", "SleepWithJitter"} THEN (-1)..MaxSleep ELSE {0}
    /\ sld = 0
    /\ slctx \in BOOLEAN
    /\ slret = "none"

NextSleep ==
    \/ SleepCall
    \/ SleepTimer
    \/ SleepCancel

-----------------------------------------------------------------------------
(* TimingController.ExponentialBackoff *)

RECURSIVE Pow2(_)
Pow2(n) == IF n = 0 THEN 1 ELSE 2 * Pow2(n - 1)

\* a value of the signed integer type time.Duration: arithmetic wraps
WrapDuration(x) ==
    ((x + Pow2(DurationBits - 1)) % Pow2(DurationBits)) - Pow2(DurationBits - 1)

MaxDuration == Pow2(DurationBits - 1) - 1

\* time.Duration(1 << uint(attempt)): a shift by the width or more is 0, and
\* uint(attempt) of a negative attempt is at least the width
ShiftLeftOne(attempt) ==
    IF attempt < 0 \/ attempt >= DurationBits THEN 0
    ELSE WrapDuration(Pow2(attempt))

\* ExponentialBackoff(attempt, base, maxDelay); f is the draw of
\* rand.Float64()
ExponentialBackoff(attempt, base, maxDelay, f) ==
    LET shifted == WrapDuration(base * ShiftLeftOne(attempt))
        delay   == IF shifted > maxDelay THEN maxDelay ELSE shifted
        \* time.Duration(float64(delay) * 0.3 * f)
        jitter  == Trunc(delay * 3 * f, 10000)
    IN  WrapDuration(delay + jitter)

BackoffStays == UNCHANGED <<ebpc, ebbase, ebcap>> /\ UNCHANGED <<varsTyping, varsScroll, varsQuota, varsSleep, varsHours, varsBreak, varsPath, varsStorage, varsSearch, varsSmooth, varsSearchAll, varsProcess>>

\* a retry loop asks for the delay of a later attempt
BackoffCall ==
    /\ ebpc = "idle"
    /\ \E attempt \in (ebattempt + 1)..MaxAttempt, f \in FloatDraws :
          /\ ebresult' = ExponentialBackoff(attempt, ebbase, ebcap, f)
          /\ ebattempt' = attempt
    /\ ebprev' = [attempt |-> ebattempt, result |-> ebresult]
    /\ BackoffStays

BackoffOff ==
    /\ ebpc = "off" /\ ebbase = 0 /\ ebcap = 0 /\ ebattempt = -1 /\ ebresult = 0
    /\ ebprev = [attempt |-> -1, result |-> 0]

\* base > 0 and maxDelay >= base; no call made yet
InitBackoff ==
    /\ ebpc = "idle"
    /\ ebbase \in 1..MaxBase
    /\ ebcap \in {c \in {ebbase, 10, 40, MaxDuration \div 2} : c >= ebbase}
    /\ ebattempt = -1 /\ ebresult = 0
    /\ ebprev = [attempt |-> -1, result |-> 0]

NextBackoff == BackoffCall

-----------------------------------------------------------------------------
(* ActivityScheduler: the working-hours gate *)

\* time.LoadLocation(name): the zones tried, as fixed offsets from UTC in
\* hours; any other name is an error
LoadLocation(name) ==
    CASE name = "UTC"              -> [ok |-> TRUE,  offset |-> 0]
      [] name = "Asia/Tokyo"       -> [ok |-> TRUE,  offset |-> 9]
      [] name = "America/New_York" -> [ok |-> TRUE,  offset |-> -5]
      [] OTHER                     -> [ok |-> FALSE, offset |-> 0]

\* The scheduler's clock counts hours from a Sunday 00:00 UTC.
\* time.Now().In(loc): the hour of the day and the weekday (Sunday = 0)
HourIn(t, offset)    == (t + offset) % 24
WeekdayIn(t, offset) == ((t + offset) \div 24) % 7

isWorkDay(cfg, weekday) ==
    \E k \in 1..Len(cfg.WorkDays) : cfg.WorkDays[k] = weekday

\* a working-hours window that includes its end hour
isWorkHourEndInclusive(cfg, hour) == hour >= cfg.StartHour /\ hour <= cfg.EndHour

\* isWorkHour := hour >= StartHour && hour < EndHour
isWorkHour(cfg, hour) == hour >= cfg.StartHour /\ hour < cfg.EndHour

\* IsWithinWorkingHours() at instant t, time.Local being at offset local
IsWithinWorkingHours(cfg, t, local) ==
    IF ~cfg.Enabled THEN TRUE
    ELSE LET loc     == LoadLocation(cfg.Timezone)
             offset  == IF loc.ok THEN loc.offset ELSE local
             hour    == HourIn(t, offset)
             weekday == WeekdayIn(t, offset)
         IN  IF ~isWorkDay(cfg, weekday) THEN FALSE
             ELSE isWorkHour(cfg, hour)

HoursStays == UNCHANGED <<hcfg, hlocal>> /\ UNCHANGED <<varsTyping, varsScroll, varsQuota, varsSleep, varsBreak, varsPath, varsBackoff, varsStorage, varsSearch, varsSmooth, varsSearchAll, varsProcess>>

\* the driver asks the gate
CheckWorkingHours ==
    /\ hpc = "idle"
    /\ hwithin' = IsWithinWorkingHours(hcfg, hnow, hlocal)
    /\ hpc' = "done"
    /\ UNCHANGED <<hnow, hfrom, hnext, hfell, hret>>
    /\ HoursStays

\* the loop "for i := 0; i < n; i++" of getNextWorkingTime from iteration i
\* on; current counts hours in the location's wall clock (day = current \div 24)
RECURSIVE scanDays(_, _, _, _)
scanDays(cfg, i, n, current) ==
    IF i >= n THEN [time |-> current, fell |-> TRUE]
    ELSE LET weekday   == (current \div 24) % 7
             startTime == (current \div 24) * 24 + cfg.StartHour
         IN  IF isWorkDay(cfg, weekday) /\ current < startTime
             THEN [time |-> startTime, fell |-> FALSE]
             ELSE IF isWorkDay(cfg, weekday) /\ current % 24 < cfg.EndHour
             THEN [time |-> current, fell |-> FALSE]
             ELSE scanDays(cfg, i + 1, n, (current \div 24 + 1) * 24)

\* a scan that stops after the seven days starting today
getNextWorkingTimeSevenDays(cfg, from, offset) ==
    LET r == scanDays(cfg, 0, 7, from + offset)
    IN  [time |-> r.time - offset, fell |-> r.fell]

\* getNextWorkingTime(from, loc), loc being offset hours ahead of UTC
getNextWorkingTime(cfg, from, offset) ==
    LET r == scanDays(cfg, 0, 8, from + offset)
    IN  [time |-> r.time - offset, fell |-> r.fell]

\* WaitForWorkingHours(ctx) up to its select
WaitForWorkingHours ==
    /\ hpc = "idle"
    /\ hfrom' = hnow
    /\ IF IsWithinWorkingHours(hcfg, hnow, hlocal)
       THEN /\ hpc' = "returned" /\ hret' = "nil"
            /\ UNCHANGED <<hnext, hfell>>
       ELSE LET loc    == LoadLocation(hcfg.Timezone)
                offset == IF loc.ok THEN loc.offset ELSE hlocal
                r      == getNextWorkingTime(hcfg, hnow, offset)
            IN  /\ hnext' = r.time /\ hfell' = r.fell
                /\ hpc' = "waiting" /\ hret' = "none"
    /\ UNCHANGED <<hnow, hwithin>>
    /\ HoursStays

\* case <-time.After(waitDuration): return nil
WaitTimer ==
    /\ hpc = "waiting"
    /\ hnow' = IF hnext > hnow THEN hnext ELSE hnow
    /\ hpc' = "returned" /\ hret' = "nil"
    /\ UNCHANGED <<hwithin, hfrom, hnext, hfell>>
    /\ HoursStays

\* case <-ctx.Done(): return ctx.Err(), at once or just before the timer
WaitCancelled ==
    /\ hpc = "waiting"
    /\ \E at \in {hnow, hnext - 1} : at >= hnow /\ hnow' = at
    /\ hpc' = "returned" /\ hret' = "canceled"
    /\ UNCHANGED <<hwithin, hfrom, hnext, hfell>>
    /\ HoursStays

ScheduleConfigs ==
    [Enabled : BOOLEAN,
     StartHour : {9}, EndHour : {17},
     Timezone : {"UTC", "Asia/Tokyo", "America/New_York", "Nowhere/Invalid"},
     WorkDays : {<<1, 2, 3, 4, 5>>, <<0, 6>>, <<3>>, <<>>},
     RandomBreaks : {TRUE}]
    \cup
    [Enabled : {TRUE},
     StartHour : {0, 22}, EndHour : {24, 6},
     Timezone : {"America/New_York"},
     WorkDays : {<<1, 2, 3, 4, 5>>},
     RandomBreaks : {TRUE}]

HoursOff ==
    /\ hpc = "off" /\ hcfg = [Enabled |-> FALSE] /\ hnow = 0 /\ hlocal = 0
    /\ hwithin = FALSE
    /\ hfrom = 0 /\ hnext = 0 /\ hfell = FALSE /\ hret = "none"

\* any hour of the two weeks after the epoch's first, any configuration
InitHours ==
    /\ hpc = "idle"
    /\ hcfg \in ScheduleConfigs
    /\ hnow \in (7 * 24)..(7 * 24 + MaxHours)
    /\ hlocal \in {-8, 1}
    /\ hwithin = FALSE
    /\ hfrom = 0 /\ hnext = 0 /\ hfell = FALSE /\ hret = "none"

NextHours ==
    \/ CheckWorkingHours
    \/ WaitForWorkingHours
    \/ WaitTimer
    \/ WaitCancelled

-----------------------------------------------------------------------------
(* ActivityScheduler: breaks *)

\* the zero time.Time of a scheduler that never took a break
Never == -1

\* a range that widens one break later
BreakRangeLate(taken) ==
    IF taken = 0 THEN [min |-> 1, max |-> 5]
    ELSE IF taken > 3 THEN [min |-> 5, max |-> 20]
    ELSE [min |-> 2, max |-> 15]

\* calculateBreakDuration(), in minutes; n is the draw of
\* rand.Int63n(maxBreak - minBreak)
BreakRange(taken) ==
    IF taken = 0 THEN [min |-> 1, max |-> 5]
    ELSE IF taken >= 3 THEN [min |-> 5, max |-> 20]
    ELSE [min |-> 2, max |-> 15]

calculateBreakDuration(taken, n) == BreakRange(taken).min + n

BreakStays == UNCHANGED <<activityStart, brandom>> /\ UNCHANGED <<varsTyping, varsScroll, varsQuota, varsSleep, varsHours, varsPath, varsBackoff, varsStorage, varsSearch, varsSmooth, varsSearchAll, varsProcess>>

\* TakeBreak(ctx) up to its select: the break is stamped and counted, then
\* the goroutine waits for ctx.Done() or time.After(breakDuration)
TakeBreakCall ==
    /\ bpc = "idle"
    /\ breaksTaken < MaxBreaks
    /\ \E n \in IntnDraws(BreakRange(breaksTaken).max - BreakRange(breaksTaken).min) :
          bdur' = calculateBreakDuration(breaksTaken, n)
    /\ bpre' = [breaksTaken |-> breaksTaken, lastBreak |-> lastBreak]
    /\ lastBreak' = bnow
    /\ breaksTaken' = breaksTaken + 1
    /\ IF bctx
       THEN bpc' = "returned" /\ bret' = "canceled"
       ELSE bpc' = "parked" /\ bret' = "none"
    /\ UNCHANGED <<bnow, bctx>>
    /\ UNCHANGED bask
    /\ BreakStays

\* the break is over: "Break finished, resuming activity", return nil
BreakTimer ==
    /\ bpc = "parked"
    /\ bnow' = bnow + bdur
    /\ bpc' = "returned" /\ bret' = "nil"
    /\ UNCHANGED <<bctx, lastBreak, breaksTaken, bdur, bpre>>
    /\ UNCHANGED bask
    /\ BreakStays

\* the context is cancelled, before a call or during the break
BreakCancel ==
    /\ bpc \in {"idle", "parked"}
    /\ ~bctx
    /\ bctx' = TRUE
    /\ IF bpc = "parked"
       THEN /\ bpc' = "returned" /\ bret' = "canceled"
            /\ \E waited \in {0, bdur - 1} : bnow' = bnow + waited
       ELSE UNCHANGED <<bpc, bret, bnow>>
    /\ UNCHANGED <<lastBreak, breaksTaken, bdur, bpre>>
    /\ UNCHANGED bask
    /\ BreakStays

\* the driver goes on after a break that ended normally
BreakResume ==
    /\ bpc = "returned" /\ bret = "nil"
    /\ bpc' = "idle" /\ bret' = "none"
    /\ UNCHANGED <<bnow, bctx, lastBreak, breaksTaken, bdur, bpre>>
    /\ UNCHANGED bask
    /\ BreakStays

\* a ShouldTakeBreak without the warm-up period
ShouldTakeBreakNoWarmUp(random, now, start, last, n, f) ==
    LET timeSinceLastBreak == IF last = Never THEN now + 100000000 ELSE now - last
        breakInterval      == 30 + n
    IN  IF ~random THEN FALSE
        ELSE IF timeSinceLastBreak > breakInterval THEN TRUE
        ELSE timeSinceLastBreak > 20 /\ Hit(f, 100)

\* a ShouldTakeBreak whose random break may come at twenty minutes sharp
ShouldTakeBreakAtTwenty(random, now, start, last, n, f) ==
    LET timeSinceLastBreak == IF last = Never THEN now + 100000000 ELSE now - last
        timeSinceStart     == now - start
        breakInterval      == 30 + n
    IN  IF ~random THEN FALSE
        ELSE IF timeSinceStart < 15 THEN FALSE
        ELSE IF timeSinceLastBreak > breakInterval THEN TRUE
        ELSE timeSinceLastBreak >= 20 /\ Hit(f, 100)

\* ShouldTakeBreak() at the instant now, in minutes; n is the draw of
\* rand.Intn(30), f the draw of rand.Float64(). time.Since of the zero
\* time.Time (no break yet) is far longer than any interval
ShouldTakeBreak(random, now, start, last, n, f) ==
    LET timeSinceLastBreak == IF last = Never THEN now + 100000000 ELSE now - last
        timeSinceStart     == now - start
        breakInterval      == 30 + n
    IN  IF ~random THEN FALSE
        ELSE IF timeSinceStart < 15 THEN FALSE
        ELSE IF timeSinceLastBreak > breakInterval THEN TRUE
        ELSE timeSinceLastBreak > 20 /\ Hit(f, 100)

\* the driver asks whether a break is due
ShouldTakeBreakCall ==
    /\ bpc = "idle"
    /\ \E n \in IntnDraws(30), f \in FloatDraws :
          bask' = [at |-> bnow,
                   result |-> ShouldTakeBreak(brandom, bnow, activityStart, lastBreak, n, f)]
    /\ UNCHANGED <<bpc, bnow, bctx, bret, lastBreak, breaksTaken, bdur, bpre>>
    /\ BreakStays

\* five minutes of activity pass
BreakTick ==
    /\ bpc = "idle"
    /\ bnow + 5 <= MaxMinutes
    /\ bnow' = bnow + 5
    /\ UNCHANGED <<bpc, bctx, bret, lastBreak, breaksTaken, bdur, bpre>>
    /\ UNCHANGED bask
    /\ BreakStays

BreakOff ==
    /\ bpc = "off" /\ bnow = 0 /\ bctx = FALSE /\ bret = "none"
    /\ lastBreak = Never /\ breaksTaken = 0 /\ bdur = 0 /\ activityStart = 0
    /\ bpre = [breaksTaken |-> 0, lastBreak |-> Never]
    /\ brandom = FALSE /\ bask = [at |-> Never, result |-> FALSE]

\* NewActivityScheduler: activityStart = time.Now(), no break taken
InitBreak ==
    /\ bpc = "idle" /\ bnow = 0 /\ bctx = FALSE /\ bret = "none"
    /\ lastBreak = Never /\ breaksTaken = 0 /\ bdur = 0 /\ activityStart = 0
    /\ bpre = [breaksTaken |-> 0, lastBreak |-> Never]
    /\ brandom \in BOOLEAN /\ bask = [at |-> Never, result |-> FALSE]

NextBreak ==
    \/ TakeBreakCall
    \/ BreakTimer
    \/ BreakCancel
    \/ BreakResume
    \/ ShouldTakeBreakCall
    \/ BreakTick

-----------------------------------------------------------------------------
(* MouseController.GeneratePath *)

\* Coordinates are float64 in the code. Here a coordinate is a whole number
\* of thousandths of a pixel, or NaN; a weight or curve parameter in [0,1]
\* is a whole number of thousandths. The requested start and end are whole
\* pixels.
NaN == 0 - 1000000000

IsNaN(x) == x = NaN

\* float64 arithmetic: NaN is contagious
FAdd(a, b) == IF IsNaN(a) \/ IsNaN(b) THEN NaN ELSE a + b

\* a * w for a weight w in thousandths
FScale(a, w) == IF IsNaN(a) THEN NaN ELSE Trunc(a * w, 1000)

Point(x, y) == [X |-> x, Y |-> y]

\* a point given in whole pixels
Pixels(x, y) == Point(x * 1000, y * 1000)

\* int(dist / 3.0) for dist = math.Sqrt(dx^2 + dy^2), dx and dy whole pixels,
\* clamped to [30, 200] as lines 40-46 do: the largest k with 9*k*k <= dist^2
NumSteps(dxPx, dyPx) ==
    LET d2 == dxPx * dxPx + dyPx * dyPx
        k  == IF d2 >= 9 * 201 * 201 THEN 201
              ELSE CHOOSE n \in 0..200 : 9 * n * n <= d2 /\ d2 < 9 * (n + 1) * (n + 1)
    IN  IF k < 30 THEN 30 ELSE IF k > 200 THEN 200 ELSE k

\* -dy / distance * deviation (and dx / distance * deviation) with
\* deviation = distance * 0.3 * (r - 0.5): the quotient by distance is 0/0,
\* NaN, when the distance is zero; otherwise the distance cancels
Perpendicular(d, zeroDistance, r) ==
    IF zeroDistance THEN NaN ELSE Trunc(Trunc(d * 3, 10) * (r - 500), 1000)

\* lines 95-107: the points[1..len-2] of generateControlPoints, points[0]
\* and points[len-1] being start and end. devs[i] is the draw of
\* rand.Float64() for the i-th interior point.
ControlPolygon(cfg, start, end, devs) ==
    LET complexity == IF cfg.BezierComplexity < 2 THEN 2 ELSE cfg.BezierComplexity
        n  == complexity + 2
        dx == end.X - start.X
        dy == end.Y - start.Y
        zeroDistance == dx = 0 /\ dy = 0
    IN  [i \in 1..n |->
            IF i = 1 THEN start
            ELSE IF i = n THEN end
            ELSE Point(FAdd(start.X + Trunc(dx * (i - 1), n - 1),
                            Perpendicular(-dy, zeroDistance, devs[i - 1])),
                       FAdd(start.Y + Trunc(dy * (i - 1), n - 1),
                            Perpendicular(dx, zeroDistance, devs[i - 1])))]

\* control points computed without the guard against a zero distance
generateControlPointsUnguarded(cfg, start, end, devs) ==
    ControlPolygon(cfg, start, end, devs)

\* generateControlPoints(start, end), with its guard against a zero distance
generateControlPoints(cfg, start, end, devs) ==
    IF end.X - start.X = 0 /\ end.Y - start.Y = 0
    THEN <<start, end>>
    ELSE ControlPolygon(cfg, start, end, devs)

\* applyEasing(t) = t*t*(3 - 2*t), t in thousandths
applyEasing(t) == Trunc(Trunc(t * t, 1000) * (3000 - 2 * t), 1000)

RECURSIVE binomialLoop(_, _, _, _)
binomialLoop(n, k, i, result) ==
    IF i >= k THEN result
    ELSE binomialLoop(n, k, i + 1, (result * (n - i)) \div (i + 1))

binomial(n, k) == binomialLoop(n, IF k > n - k THEN n - k ELSE k, 0, 1)

\* math.Pow(t, k), t in thousandths; math.Pow(0, 0) = 1
RECURSIVE Pow(_, _)
Pow(t, k) == IF k = 0 THEN 1000 ELSE Trunc(Pow(t, k - 1) * t, 1000)

\* bernstein(n, k, t), in thousandths
bernstein(n, k, t) == binomial(n, k) * Trunc(Pow(t, k) * Pow(1000 - t, n - k), 1000)

RECURSIVE WeightedSum(_, _, _, _)
WeightedSum(points, t, i, axis) ==
    IF i > Len(points) THEN 0
    ELSE FAdd(FScale(IF axis = "X" THEN points[i].X ELSE points[i].Y,
                     bernstein(Len(points) - 1, i - 1, t)),
              WeightedSum(points, t, i + 1, axis))

bezierPoint(points, t) ==
    Point(WeightedSum(points, t, 1, "X"), WeightedSum(points, t, 1, "Y"))

\* a sampling loop that stops one short: "for i := 0; i < numSteps; i++"
generateBezierPathShort(cfg, start, end, numSteps, devs) ==
    LET controlPoints == generateControlPoints(cfg, start, end, devs) IN
    [j \in 1..numSteps |->
        bezierPoint(controlPoints, applyEasing(Trunc((j - 1) * 1000, numSteps)))]

\* generateBezierPath(start, end, numSteps): "for i := 0; i <= numSteps; i++"
generateBezierPath(cfg, start, end, numSteps, devs) ==
    LET controlPoints == generateControlPoints(cfg, start, end, devs) IN
    [j \in 1..(numSteps + 1) |->
        bezierPoint(controlPoints, applyEasing(Trunc((j - 1) * 1000, numSteps)))]

\* addOvershoot(path, target); r is the draw of rand.Float64() for the
\* overshoot distance, devs the draws of the correction curve
addOvershoot(cfg, pts, target, r, devs) ==
    IF Len(pts) = 0 THEN pts
    ELSE LET last == pts[Len(pts)]
             dx   == FAdd(target.X, IF IsNaN(last.X) THEN NaN ELSE -last.X)
             dy   == FAdd(target.Y, IF IsNaN(last.Y) THEN NaN ELSE -last.Y)
             \* overshootDistance = 5 + r*15, in tenths of a percent
             od   == 50 + Trunc(15 * r, 100)
             overshoot == Point(FAdd(target.X, FScale(dx, od)),
                                FAdd(target.Y, FScale(dy, od)))
             correctionPath == generateBezierPath(cfg, overshoot, target, 20, devs)
         IN  Append(pts, overshoot) \o SubSeq(correctionPath, 2, Len(correctionPath))

\* The draws of addMicroMovements come from one of a few streams: the k-th
\* stream's draw for point i, slot 1..5 (jitterX, jitterY, the tremor test,
\* pauseJitterX, pauseJitterY)
JitterStreams == {"low", "mid", "high", "mixed"}

StreamDraw(stream, i, slot) ==
    CASE stream = "low"   -> 0
      [] stream = "mid"   -> 500
      [] stream = "high"  -> 999
      [] stream = "mixed" -> ((i * 7 + slot * 3) * 137) % 1000

\* addMicroMovements(path): the loop appends every point, jittered, and
\* after an interior point a tremor point when its draw is below 0.1.
\* microLoop gives what the iterations lo..hi append, in order (the range is
\* halved to keep the evaluation shallow).
RECURSIVE microLoop(_, _, _, _)
microLoop(pts, lo, hi, stream) ==
    IF lo > hi THEN <<>>
    ELSE IF lo = hi
    THEN LET pt == pts[lo]
             \* (r - 0.5) * 2 pixels
             jittered == Point(FAdd(pt.X, (StreamDraw(stream, lo, 1) - 500) * 2),
                               FAdd(pt.Y, (StreamDraw(stream, lo, 2) - 500) * 2))
             \* (r - 0.5) * 0.5 pixels
             tremor == Point(FAdd(pt.X, Trunc(StreamDraw(stream, lo, 4) - 500, 2)),
                             FAdd(pt.Y, Trunc(StreamDraw(stream, lo, 5) - 500, 2)))
         IN  IF lo > 1 /\ lo < Len(pts) /\ Hit(StreamDraw(stream, lo, 3), 100)
             THEN <<jittered, tremor>> ELSE <<jittered>>
    ELSE LET mid == (lo + hi) \div 2
         IN  microLoop(pts, lo, mid, stream) \o microLoop(pts, mid + 1, hi, stream)

addMicroMovements(pts, stream) == microLoop(pts, 1, Len(pts), stream)

\* the overshoot branch of GeneratePath is taken: line 50
OvershootTaken(cfg, fOver) == cfg.OvershootEnabled /\ Hit(fOver, 300)

\* GeneratePath(start, end), start and end in whole pixels. d holds the draws:
\* devs (control points), fOver (the overshoot test), rOver (its distance),
\* devs2 (control points of the correction), stream (micro-movements)
GeneratePath(cfg, startPx, endPx, d) ==
    LET start == Pixels(startPx[1], startPx[2])
        end   == Pixels(endPx[1], endPx[2])
    IN  IF ~cfg.Enabled THEN <<start, end>>
        ELSE LET numSteps == NumSteps(endPx[1] - startPx[1], endPx[2] - startPx[2])
                 p1 == generateBezierPath(cfg, start, end, numSteps, d.devs)
                 p2 == IF OvershootTaken(cfg, d.fOver)
                       THEN addOvershoot(cfg, p1, end, d.rOver, d.devs2) ELSE p1
             IN  IF cfg.MicroMovements THEN addMicroMovements(p2, d.stream) ELSE p2

\* the draws tried for the interior control points: all to one side, all to
\* the other, alternating
DevDraws == {<<0, 0, 0, 0>>, <<999, 999, 999, 999>>, <<0, 999, 0, 999>>}

PathDraws(cfg) ==
    [devs : DevDraws,
     fOver : IF cfg.OvershootEnabled THEN {0, 999} ELSE {999},
     rOver : IF cfg.OvershootEnabled THEN {0, 999} ELSE {0},
     devs2 : {<<0, 999, 0, 999>>},
     stream : IF cfg.MicroMovements THEN JitterStreams ELSE {"mid"}]

PathStays == UNCHANGED <<pcfg, pstart, pend>> /\ UNCHANGED <<varsTyping, varsScroll, varsQuota, varsSleep, varsHours, varsBreak, varsBackoff, varsStorage, varsSearch, varsSmooth, varsSearchAll, varsProcess>>

\* the driver asks for a path
DoGeneratePath ==
    /\ ppc = "idle"
    /\ \E d \in PathDraws(pcfg) :
          /\ path' = GeneratePath(pcfg, pstart, pend, d)
          /\ pover' = (pcfg.Enabled /\ OvershootTaken(pcfg, d.fOver))
    /\ ppc' = "done"
    /\ PathStays

MouseConfigs ==
    [Enabled : BOOLEAN, OvershootEnabled : BOOLEAN, MicroMovements : BOOLEAN,
     BezierComplexity : {0, 3}]

\* the end points tried, in pixels
PathStarts == {<<0, 0>>, <<40, 30>>}
PathEnds == {<<0, 0>>, <<40, 30>>, <<100, 100>>, <<0, 500>>, <<1000, 800>>}

PathOff ==
    /\ ppc = "off" /\ pcfg = [Enabled |-> FALSE] /\ pstart = <<0, 0>>
    /\ pend = <<0, 0>> /\ path = <<>> /\ pover = FALSE

InitPath ==
    /\ ppc = "idle"
    /\ pcfg \in MouseConfigs
    /\ pstart \in PathStarts
    /\ pend \in PathEnds
    /\ path = <<>> /\ pover = FALSE

NextPath == DoGeneratePath

-----------------------------------------------------------------------------
(* Storage: AddProfile, AddConnection, AddMessage *)

Callers == {1, 2}

ProfileURLs == {"u1", "u2"}

\* an item of a stored list; by tells the items of the two callers (and the
\* ones stored before, 0) apart
StoredItem(url, by) == [url |-> url, by |-> by]

HasURL(list, url) == \E i \in 1..Len(list) : list[i].url = url

\* AddProfile after its load: nothing is saved when the URL is in the list
AddProfile(list, item) ==
    IF HasURL(list, item.url) THEN [save |-> FALSE, list |-> list]
    ELSE [save |-> TRUE, list |-> Append(list, item)]

\* AddConnection after its load: the first entry of the URL is replaced
AddConnection(list, item) ==
    IF HasURL(list, item.url)
    THEN LET i == CHOOSE k \in 1..Len(list) :
                     list[k].url = item.url /\ \A j \in 1..(k - 1) : list[j].url # item.url
         IN  [save |-> TRUE, list |-> [list EXCEPT ![i] = item]]
    ELSE [save |-> TRUE, list |-> Append(list, item)]

\* AddMessage after its load
AddMessage(list, item) == [save |-> TRUE, list |-> Append(list, item)]

StorageStays == UNCHANGED <<stop, starg>> /\ UNCHANGED <<varsTyping, varsScroll, varsQuota, varsSleep, varsHours, varsBreak, varsPath, varsBackoff, varsSearch, varsSmooth, varsSearchAll, varsProcess>>

\* s.load(file, &list): the file is read under the read lock, which is
\* released when load returns
StorageLoad(c) ==
    /\ stpc[c] = "call"
    /\ stlocal' = [stlocal EXCEPT ![c] = stfile]
    /\ stpc' = [stpc EXCEPT ![c] = "loaded"]
    /\ UNCHANGED stfile
    /\ StorageStays

\* the rest of the Add operation: the list is changed in memory and
\* s.save writes it under the write lock
StorageSave(c) ==
    /\ stpc[c] = "loaded"
    /\ LET item == StoredItem(starg[c], c)
           r == CASE stop = "AddProfile"    -> AddProfile(stlocal[c], item)
                  [] stop = "AddConnection" -> AddConnection(stlocal[c], item)
                  [] OTHER                  -> AddMessage(stlocal[c], item)
       IN  stfile' = IF r.save THEN r.list ELSE stfile
    /\ stpc' = [stpc EXCEPT ![c] = "done"]
    /\ UNCHANGED stlocal
    /\ StorageStays

StorageOff ==
    /\ stop = "off" /\ stfile = <<>>
    /\ stpc = [c \in Callers |-> "off"]
    /\ stlocal = [c \in Callers |-> <<>>]
    /\ starg = [c \in Callers |-> "u1"]

\* the lists a file holds at the start: no URL twice
StoredLists ==
    {l \in SeqsUpTo({StoredItem(u, 0) : u \in ProfileURLs}, MaxStored) :
        \A i, j \in 1..Len(l) : l[i].url = l[j].url => i = j}

\* two callers are about to run the same Add operation
InitStorage ==
    /\ stop \in {"AddProfile", "AddConnection", "AddMessage"}
    /\ stfile \in StoredLists
    /\ stpc = [c \in Callers |-> "call"]
    /\ stlocal = [c \in Callers |-> <<>>]
    /\ starg \in [Callers -> ProfileURLs]

NextStorage == \E c \in Callers : StorageLoad(c) \/ StorageSave(c)

-----------------------------------------------------------------------------
(* Searcher.filterDuplicates *)

SearchResult(url, name) == [ProfileURL |-> url, Name |-> name]

\* storage.ProfileExists(url): (false, err) when the profiles cannot be loaded
ProfileExists(stored, url, failed) ==
    IF failed THEN [exists |-> FALSE, err |-> TRUE]
    ELSE [exists |-> url \in stored, err |-> FALSE]

\* a loop that does not remember the URLs it has let through
RECURSIVE filterLoopNoSeen(_, _, _, _, _, _)
filterLoopNoSeen(results, i, seen, unique, stored, errs) ==
    IF i > Len(results) THEN unique
    ELSE LET result == results[i]
             exists == ProfileExists(stored, result.ProfileURL, i \in errs).exists
         IN  IF result.ProfileURL = ""
             THEN filterLoopNoSeen(results, i + 1, seen, unique, stored, errs)
             ELSE IF ~exists
             THEN filterLoopNoSeen(results, i + 1, seen, Append(unique, result), stored, errs)
             ELSE filterLoopNoSeen(results, i + 1, seen, unique, stored, errs)

filterDuplicatesNoSeen(results, stored, errs) ==
    filterLoopNoSeen(results, 1, {}, <<>>, stored, errs)

\* "for _, result := range results" from position i on
RECURSIVE filterLoop(_, _, _, _, _, _)
filterLoop(results, i, seen, unique, stored, errs) ==
    IF i > Len(results) THEN unique
    ELSE LET result == results[i]
             exists == ProfileExists(stored, result.ProfileURL, i \in errs).exists
         IN  IF result.ProfileURL = ""
             THEN filterLoop(results, i + 1, seen, unique, stored, errs)
             ELSE IF result.ProfileURL \notin seen /\ ~exists
             THEN filterLoop(results, i + 1, seen \cup {result.ProfileURL},
                             Append(unique, result), stored, errs)
             ELSE filterLoop(results, i + 1, seen, unique, stored, errs)

filterDuplicates(results, stored, errs) == filterLoop(results, 1, {}, <<>>, stored, errs)

SearchStays == UNCHANGED <<fresults, fstored, ferr>> /\ UNCHANGED <<varsTyping, varsScroll, varsQuota, varsSleep, varsHours, varsBreak, varsPath, varsBackoff, varsStorage, varsSmooth, varsSearchAll, varsProcess>>

FilterCall ==
    /\ fpc = "call"
    /\ funique' = filterDuplicates(fresults, fstored, ferr)
    /\ fpc' = "done"
    /\ SearchStays

SearchOff ==
    /\ fpc = "off" /\ fresults = <<>> /\ fstored = {} /\ ferr = {} /\ funique = <<>>

\* any results (a URL may be empty or repeated), any stored profiles, any
\* lookups failing
InitSearch ==
    /\ fpc = "call"
    /\ \E urls \in SeqsUpTo(ProfileURLs \cup {""}, MaxResults) :
          fresults = [i \in 1..Len(urls) |-> SearchResult(urls[i], i)]
    /\ fstored \in SUBSET ProfileURLs
    /\ ferr \in SUBSET (1..Len(fresults))
    /\ funique = <<>>

NextSearch == FilterCall

-----------------------------------------------------------------------------
(* ScrollController.GenerateSmoothScrollSteps *)

\* a step count without the upper limit
SmoothNumStepsUncapped(totalDelta) ==
    LET n == abs(totalDelta) \div 20
    IN  IF n < 5 THEN 5 ELSE n

\* numSteps: |totalDelta| / 20, kept within 5..50
SmoothNumSteps(totalDelta) ==
    LET n == abs(totalDelta) \div 20
    IN  IF n < 5 THEN 5 ELSE IF n > 50 THEN 50 ELSE n

Cube(x) == x * x * x

\* the loop "for i := 0; i < numSteps; i++" from iteration i on. With
\* t = i/(numSteps-1) and eased = 1 - (1-t)^3,
\* totalDelta * (eased - (totalDelta-remaining)/totalDelta)
\*     = remaining - totalDelta * (numSteps-1-i)^3 / (numSteps-1)^3
RECURSIVE smoothLoop(_, _, _, _, _, _)
smoothLoop(totalDelta, numSteps, i, rem, steps, stream) ==
    IF i = numSteps - 1 THEN Append(steps, rem)
    ELSE LET raw  == Trunc(rem * Cube(numSteps - 1) - totalDelta * Cube(numSteps - 1 - i),
                           Cube(numSteps - 1))
             \* int(float64(step) * 0.1 * (rand.Float64()*2 - 1))
             variation == Trunc(raw * (2 * StreamDraw(stream, i, 1) - 1000), 10000)
             varied == raw + variation
             capped == IF varied > rem /\ rem > 0 THEN rem ELSE varied
             step   == IF capped < -rem /\ rem < 0 THEN -rem ELSE capped
         IN  smoothLoop(totalDelta, numSteps, i + 1, rem - step, Append(steps, step), stream)

\* GenerateSmoothScrollSteps(totalDelta)
GenerateSmoothScrollSteps(smooth, totalDelta, stream) ==
    IF ~smooth THEN <<totalDelta>>
    ELSE smoothLoop(totalDelta, SmoothNumSteps(totalDelta), 0, totalDelta, <<>>, stream)

SmoothStays == UNCHANGED <<ssdelta, sssmooth, ssstream>> /\ UNCHANGED <<varsTyping, varsScroll, varsQuota, varsSleep, varsHours, varsBreak, varsPath, varsBackoff, varsStorage, varsSearch, varsSearchAll, varsProcess>>

\* ExecuteScroll asks for the sub-steps of a chunk
SmoothCall ==
    /\ sspc = "call"
    /\ sssteps' = GenerateSmoothScrollSteps(sssmooth, ssdelta, ssstream)
    /\ sspc' = "done"
    /\ SmoothStays

SmoothOff ==
    /\ sspc = "off" /\ ssdelta = 0 /\ sssmooth = FALSE /\ ssstream = "mid"
    /\ sssteps = <<>>

\* the chunks tried: every small one, up (negative) or down, and some
\* downward ones long enough for up to 50 sub-steps
SmoothDeltas ==
    (((-MaxChunk)..MaxChunk) \ {0}) \cup {200, 400, 700, 1000, 1100}

InitSmooth ==
    /\ sspc = "call"
    /\ ssdelta \in SmoothDeltas
    /\ sssmooth \in BOOLEAN
    /\ ssstream \in JitterStreams
    /\ sssteps = <<>>

NextSmooth == SmoothCall

-----------------------------------------------------------------------------
(* Searcher.SearchAll, searchWithPagination and Search *)

\* the queries of a configuration (keywords, then job titles, then
\* companies), the pages fetched per query, the results of a page
MaxQueries == 2
PagesPerSearch == 2
MaxPageLen == 2

\* what one Search finds: Navigate, SleepPageLoad or extractResults fails, or
\* the page shows the profiles urls
SearchPages ==
    {[err |-> TRUE, urls |-> <<>>]}
    \cup {[err |-> FALSE, urls |-> u] : u \in SeqsUpTo(ProfileURLs, MaxPageLen)}

URLsOf(results) == [i \in 1..Len(results) |-> results[i].ProfileURL]

URLSet(results) == {results[i].ProfileURL : i \in 1..Len(results)}

\* allResults[:MaxResults] once len(allResults) >= MaxResults
Truncate(results, max) ==
    IF Len(results) >= max THEN SubSeq(results, 1, max) ELSE results

SearchAllStays == UNCHANGED <<saqueries, samax>> /\ UNCHANGED <<varsTyping, varsScroll, varsQuota, varsSleep, varsHours, varsBreak, varsPath, varsBackoff, varsStorage, varsSearch, varsSmooth, varsProcess>>

\* one iteration of searchWithPagination: Search(ctx, query) for the page,
\* which filters what it extracted and saves each unique result with
\* AddProfile, then the bookkeeping of the page loop. When the loop of the
\* query ends, SearchAll appends its results and goes to SleepThink; on an
\* error SearchAll logs it and continues with the next query
SearchPage ==
    /\ sapc = "search" /\ saq <= Len(saqueries)
    /\ LET page   == saqueries[saq][sapage]
           found  == [i \in 1..Len(page.urls) |-> SearchResult(page.urls[i], saq * 10 + sapage)]
           unique == filterDuplicates(found, sastored, {})
           acc    == Truncate(saquery \o unique, samax)
       IN  IF page.err
           THEN /\ saq' = saq + 1 /\ sapage' = 1 /\ saquery' = <<>>
                /\ UNCHANGED <<sapc, sastored, sanew, saall>>
           ELSE /\ sastored' = sastored \cup URLSet(unique)
                /\ sanew' = sanew \o URLsOf(unique)
                /\ IF Len(unique) = 0
                   THEN /\ saall' = saall \o saquery
                        /\ saq' = saq + 1 /\ sapage' = 1 /\ saquery' = <<>>
                        /\ sapc' = "think"
                   ELSE IF Len(saquery \o unique) >= samax \/ sapage = PagesPerSearch
                   THEN /\ saall' = saall \o acc
                        /\ saq' = saq + 1 /\ sapage' = 1 /\ saquery' = <<>>
                        /\ sapc' = "think"
                   ELSE /\ saquery' = acc /\ sapage' = sapage + 1
                        /\ UNCHANGED <<sapc, saq, saall>>
    /\ UNCHANGED <<saret, saerr>>
    /\ SearchAllStays

\* s.timing.SleepThink(ctx) of SearchAll returns nil
ThinkDone ==
    /\ sapc = "think"
    /\ sapc' = "search"
    /\ UNCHANGED <<sastored, saq, sapage, saquery, saall, sanew, saret, saerr>>
    /\ SearchAllStays

\* the context is cancelled during SleepThink: return allResults, err
ThinkCancelled ==
    /\ sapc = "think"
    /\ sapc' = "done" /\ saret' = saall /\ saerr' = TRUE
    /\ UNCHANGED <<sastored, saq, sapage, saquery, saall, sanew>>
    /\ SearchAllStays

\* after the last query: return s.filterDuplicates(allResults), nil
SearchAllReturn ==
    /\ sapc = "search" /\ saq > Len(saqueries)
    /\ saret' = filterDuplicates(saall, sastored, {})
    /\ sapc' = "done" /\ saerr' = FALSE
    /\ UNCHANGED <<sastored, saq, sapage, saquery, saall, sanew>>
    /\ SearchAllStays

SearchAllOff ==
    /\ sapc = "off" /\ saqueries = <<>> /\ samax = 0 /\ sastored = {}
    /\ saq = 0 /\ sapage = 0 /\ saquery = <<>> /\ saall = <<>> /\ sanew = <<>>
    /\ saret = <<>> /\ saerr = FALSE

\* any queries showing any pages, any profiles stored by earlier runs
InitSearchAll ==
    /\ sapc = "search"
    /\ saqueries \in SeqsUpTo([1..PagesPerSearch -> SearchPages], MaxQueries)
    /\ samax \in {2, 100}
    /\ sastored \in SUBSET ProfileURLs
    /\ saq = 1 /\ sapage = 1 /\ saquery = <<>> /\ saall = <<>> /\ sanew = <<>>
    /\ saret = <<>> /\ saerr = FALSE

NextSearchAll ==
    \/ SearchPage
    \/ ThinkDone
    \/ ThinkCancelled
    \/ SearchAllReturn

-----------------------------------------------------------------------------
(* ConnectionManager.ProcessProfiles *)

\* the profiles GetUnprocessedProfiles hands over: no URL twice
ProfileLists == {<<>>, <<"u1">>, <<"u2">>, <<"u1", "u2">>, <<"u2", "u1">>}

\* storage.MarkProfileProcessed(url): Processed = true for the profile
MarkProfileProcessed(processed, url) == processed \cup {url}

ProcessStays == UNCHANGED ppprofiles /\ UNCHANGED <<varsTyping, varsScroll, varsQuota, varsSleep, varsHours, varsBreak, varsPath, varsBackoff, varsStorage, varsSearch, varsSmooth, varsSearchAll>>

\* the head of the loop: return results, nil after the last profile; break
\* when canSendConnection() is false; else SendConnectionRequest is called
\* and is under way (its own gate is open too)
ProcessHead ==
    /\ pppc = "head"
    /\ IF ppi > Len(ppprofiles) \/ ppquota = 0
       THEN pppc' = "done" /\ ppret' = "nil"
       ELSE pppc' = "sending" /\ ppret' = ppret
    /\ UNCHANGED <<ppquota, ppi, ppctx, ppprocessed, ppsent, ppresults, ppcancelAt>>
    /\ ProcessStays

\* ctx is cancelled, between two profiles, while the request for the
\* profile in hand has not been sent, or during SleepThink
ContextCancelled ==
    /\ pppc \in {"head", "sending", "thinking"} /\ ~ppctx
    /\ ppctx' = TRUE
    /\ ppcancelAt' = IF pppc = "sending" THEN ppi ELSE ppcancelAt
    /\ UNCHANGED <<pppc, ppquota, ppi, ppprocessed, ppsent, ppresults, ppret>>
    /\ ProcessStays

\* SendConnectionRequest returns and the loop body runs up to SleepThink.
\* With ctx cancelled Navigate or a sleep fails: (result with Error, err) or
\* (nil, err), nothing sent. Otherwise the request is sent and counted, or
\* a result without error tells why it was not (connection exists, the
\* connect button could not be clicked or confirmed). An error is only
\* logged: the profile is marked processed whatever happened
SendAndMark ==
    /\ pppc = "sending"
    /\ LET url == ppprofiles[ppi] IN
       \E outcome \in (IF ppctx THEN {"navigate failed", "sleep cancelled"}
                        ELSE {"sent", "not sent"}) :
          /\ ppsent' = IF outcome = "sent" THEN ppsent \cup {url} ELSE ppsent
          /\ ppquota' = IF outcome = "sent" THEN ppquota - 1 ELSE ppquota
          /\ ppresults' = IF outcome = "sleep cancelled" THEN ppresults
                          ELSE Append(ppresults, outcome)
          /\ ppprocessed' = MarkProfileProcessed(ppprocessed, url)
    /\ pppc' = "thinking"
    /\ UNCHANGED <<ppi, ppctx, ppret, ppcancelAt>>
    /\ ProcessStays

\* c.timing.SleepThink(ctx): return results, err when ctx is cancelled,
\* else on to the next profile
ProcessThink ==
    /\ pppc = "thinking"
    /\ IF ppctx
       THEN pppc' = "done" /\ ppret' = "canceled" /\ ppi' = ppi
       ELSE pppc' = "head" /\ ppret' = ppret /\ ppi' = ppi + 1
    /\ UNCHANGED <<ppquota, ppctx, ppprocessed, ppsent, ppresults, ppcancelAt>>
    /\ ProcessStays

ProcessOff ==
    /\ pppc = "off" /\ ppprofiles = <<>> /\ ppquota = 0 /\ ppi = 0 /\ ppctx = FALSE
    /\ ppprocessed = {} /\ ppsent = {} /\ ppresults = <<>> /\ ppret = "none"
    /\ ppcancelAt = 0

\* a batch of unprocessed profiles, a quota, a live context
InitProcess ==
    /\ pppc = "head"
    /\ ppprofiles \in ProfileLists
    /\ ppquota \in 0..MaxLimit
    /\ ppi = 1 /\ ppctx = FALSE
    /\ ppprocessed = {} /\ ppsent = {} /\ ppresults = <<>> /\ ppret = "none"
    /\ ppcancelAt = 0

NextProcess ==
    \/ ProcessHead
    \/ ContextCancelled
    \/ SendAndMark
    \/ ProcessThink

-----------------------------------------------------------------------------
(* Specifications: one controller is driven in a behaviour, the others are off *)

InitTyping ==
    InitGenerate /\ ScrollOff /\ QuotaOff /\ SleepOff /\ HoursOff /\ BreakOff /\ PathOff
    /\ BackoffOff /\ StorageOff /\ SearchOff /\ SmoothOff /\ SearchAllOff /\ ProcessOff
NextTyping == NextGenerate
SpecTyping == InitTyping /\ [][NextTyping]_vars

InitExec ==
    InitExecute /\ ScrollOff /\ QuotaOff /\ SleepOff /\ HoursOff /\ BreakOff /\ PathOff
    /\ BackoffOff /\ StorageOff /\ SearchOff /\ SmoothOff /\ SearchAllOff /\ ProcessOff
NextExec == NextGenerate \/ NextExecute
SpecExec == InitExec /\ [][NextExec]_vars

InitScrolling ==
    TypingOff /\ InitScroll /\ QuotaOff /\ SleepOff /\ HoursOff /\ BreakOff /\ PathOff
    /\ BackoffOff /\ StorageOff /\ SearchOff /\ SmoothOff /\ SearchAllOff /\ ProcessOff
SpecScroll == InitScrolling /\ [][NextScroll]_vars

InitQuotas ==
    TypingOff /\ ScrollOff /\ InitQuota /\ SleepOff /\ HoursOff /\ BreakOff /\ PathOff
    /\ BackoffOff /\ StorageOff /\ SearchOff /\ SmoothOff /\ SearchAllOff /\ ProcessOff
SpecQuota == InitQuotas /\ [][NextQuota]_vars

InitSleeping ==
    TypingOff /\ ScrollOff /\ QuotaOff /\ InitSleep /\ HoursOff /\ BreakOff /\ PathOff
    /\ BackoffOff /\ StorageOff /\ SearchOff /\ SmoothOff /\ SearchAllOff /\ ProcessOff
SpecSleep == InitSleeping /\ [][NextSleep]_vars

InitWorkingHours ==
    TypingOff /\ ScrollOff /\ QuotaOff /\ SleepOff /\ InitHours /\ BreakOff /\ PathOff
    /\ BackoffOff /\ StorageOff /\ SearchOff /\ SmoothOff /\ SearchAllOff /\ ProcessOff
SpecHours == InitWorkingHours /\ [][NextHours]_vars

InitBreaks ==
    TypingOff /\ ScrollOff /\ QuotaOff /\ SleepOff /\ HoursOff /\ InitBreak /\ PathOff
    /\ BackoffOff /\ StorageOff /\ SearchOff /\ SmoothOff /\ SearchAllOff /\ ProcessOff
SpecBreak == InitBreaks /\ [][NextBreak]_vars

InitPaths ==
    TypingOff /\ ScrollOff /\ QuotaOff /\ SleepOff /\ HoursOff /\ BreakOff /\ InitPath
    /\ BackoffOff /\ StorageOff /\ SearchOff /\ SmoothOff /\ SearchAllOff /\ ProcessOff
SpecPath == InitPaths /\ [][NextPath]_vars

InitBackingOff ==
    TypingOff /\ ScrollOff /\ QuotaOff /\ SleepOff /\ HoursOff /\ BreakOff /\ PathOff
    /\ InitBackoff /\ StorageOff /\ SearchOff /\ SmoothOff /\ SearchAllOff /\ ProcessOff
SpecBackoff == InitBackingOff /\ [][NextBackoff]_vars

AllOff ==
    TypingOff /\ ScrollOff /\ QuotaOff /\ SleepOff /\ HoursOff /\ BreakOff /\ PathOff
    /\ BackoffOff

InitStoring == AllOff /\ InitStorage /\ SearchOff /\ SmoothOff /\ SearchAllOff /\ ProcessOff
SpecStorage == InitStoring /\ [][NextStorage]_vars

InitFiltering == AllOff /\ StorageOff /\ InitSearch /\ SmoothOff /\ SearchAllOff /\ ProcessOff
SpecSearch == InitFiltering /\ [][NextSearch]_vars

InitSmoothing == AllOff /\ StorageOff /\ SearchOff /\ InitSmooth /\ SearchAllOff /\ ProcessOff
SpecSmooth == InitSmoothing /\ [][NextSmooth]_vars

InitSearchingAll == AllOff /\ StorageOff /\ SearchOff /\ SmoothOff /\ InitSearchAll /\ ProcessOff
SpecSearchAll == InitSearchingAll /\ [][NextSearchAll]_vars

InitProcessing ==
    AllOff /\ StorageOff /\ SearchOff /\ SmoothOff /\ SearchAllOff /\ InitProcess
SpecProcess == InitProcessing /\ [][NextProcess]_vars

Init ==
    \/ InitBackingOff
    \/ InitStoring
    \/ InitFiltering
    \/ InitSmoothing
    \/ InitSearchingAll
    \/ InitProcessing
    \/ InitTyping
    \/ InitExec
    \/ InitScrolling
    \/ InitQuotas
    \/ InitSleeping
    \/ InitWorkingHours
    \/ InitBreaks
    \/ InitPaths

Next ==
    \/ NextGenerate
    \/ NextExecute
    \/ NextScroll
    \/ NextQuota
    \/ NextSleep
    \/ NextHours
    \/ NextBreak
    \/ NextPath
    \/ NextBackoff
    \/ NextStorage
    \/ NextSearch
    \/ NextSmooth
    \/ NextSearchAll
    \/ NextProcess

Spec == Init /\ [][Next]_vars

-----------------------------------------------------------------------------
(* Properties of GenerateKeystrokes and ExecuteTyping *)

\* what a text field holds after the keystrokes ks: a backspace removes the
\* last character, any other keystroke appends its Char
RECURSIVE Replay(_, _)
Replay(ks, n) ==
    IF n = 0 THEN <<>>
    ELSE LET before == Replay(ks, n - 1) IN
         IF ks[n].Backspace
         THEN (IF before = <<>> THEN <<>> ELSE SubSeq(before, 1, Len(before) - 1))
         ELSE Append(before, ks[n].Char)

\* C1: for every text and every TypingConfig, enabled or not, replaying the
\* keystrokes GenerateKeystrokes returned yields exactly the text.
C1_ReplayYieldsText ==
    tpc = "done" => Replay(keystrokes, Len(keystrokes)) = ToRunes(text)

\* C5: once the context is cancelled while ExecuteTyping waits out the delay
\* of keystroke k, neither typeFn nor backspaceFn is called for k or a later
\* keystroke, and ExecuteTyping returns the cancellation error.
C5_CancelDuringDelayStopsTyping ==
    tcancelAt # 0 =>
        /\ \A k \in 1..Len(tcalls) : tcalls[k] < tcancelAt
        /\ (tpc = "returned" => tret = "canceled")

\* one event per character of s, in order, with zero delay and no flag set
PlainKeystrokes(s) ==
    [i \in 1..Len(ToRunes(s)) |-> KeyStroke(ToRunes(s)[i], 0, FALSE, FALSE)]

\* C18: with typing disabled, GenerateKeystrokes(text) returns one event per
\* character of text (ASCII or multi-byte), in order, each with zero delay
\* and none marked typo or backspace.
C18_DisabledOneEventPerCharacter ==
    (tpc = "done" /\ ~tcfg.Enabled) => keystrokes = PlainKeystrokes(text)

\* C19: with typing enabled, TypoChance = 0 and ThinkPauseChance = 0, the
\* keystrokes GenerateKeystrokes(text) returns are exactly one per character,
\* carry the characters of text in order, and none is a backspace or a typo.
C19_NoChanceOneEventPerCharacter ==
    (tpc = "done" /\ tcfg.Enabled /\ tcfg.TypoChance = 0 /\ tcfg.ThinkPauseChance = 0) =>
        /\ Len(keystrokes) = Len(ToRunes(text))
        /\ \A i \in 1..Len(keystrokes) :
              /\ keystrokes[i].Char = ToRunes(text)[i]
              /\ ~keystrokes[i].Backspace
              /\ ~keystrokes[i].IsTypo

\* GenerateKeystrokes("a\u00e9") returned with both chances zero
C19_Witness ==
    /\ tpc = "done" /\ tcfg.Enabled
    /\ tcfg.TypoChance = 0 /\ tcfg.ThinkPauseChance = 0
    /\ text = EncodeString(<<97, 233>>)
    /\ Len(keystrokes) = 2

\* the keystrokes ks from position k on spell the characters runes from
\* position i on: one plain event per character, or a typo event (never for
\* whitespace), a backspace after CorrectionDelay and the plain event
RECURSIVE Spells(_, _, _, _, _)
Spells(ks, k, runes, i, correctionDelay) ==
    IF i > Len(runes) THEN k = Len(ks) + 1
    ELSE IF k > Len(ks) THEN FALSE
    ELSE IF ks[k].IsTypo
    THEN /\ ~IsSpace(runes[i]) /\ ~ks[k].Backspace
         /\ k + 2 <= Len(ks)
         /\ ks[k + 1].Backspace /\ ~ks[k + 1].IsTypo
         /\ ks[k + 1].Delay = correctionDelay
         /\ ~ks[k + 2].Backspace /\ ~ks[k + 2].IsTypo
         /\ ks[k + 2].Char = runes[i]
         /\ Spells(ks, k + 3, runes, i + 1, correctionDelay)
    ELSE /\ ~ks[k].Backspace /\ ks[k].Char = runes[i]
         /\ Spells(ks, k + 1, runes, i + 1, correctionDelay)

\* C33: in every sequence of enabled GenerateKeystrokes the number of events
\* is the number of characters plus twice the number of IsTypo events; each
\* IsTypo event is for a non-whitespace character and is followed at once
\* by a Backspace of delay CorrectionDelay and then by a non-typo event with
\* the intended character; there is no other Backspace; no Delay is negative.
C33_TypoTriples ==
    (tpc = "done" /\ tcfg.Enabled) =>
        /\ Len(keystrokes) = Len(ToRunes(text))
              + 2 * Cardinality({k \in 1..Len(keystrokes) : keystrokes[k].IsTypo})
        /\ Spells(keystrokes, 1, ToRunes(text), 1, tcfg.CorrectionDelay)
        /\ \A k \in 1..Len(keystrokes) : keystrokes[k].Delay >= 0

\* "a " came back with a typo for the 'a' and a plain space
C33_Witness ==
    /\ tpc = "done" /\ tcfg.Enabled /\ text = <<97, 32>>
    /\ Len(keystrokes) = 4
    /\ keystrokes[1].IsTypo /\ keystrokes[2].Backspace /\ keystrokes[3].Char = 97
    /\ keystrokes[4].Char = 32

C26_TypingDurationAtLeastMin ==
    (/\ tpc = "done" /\ tcfg.Enabled /\ text # <<>>
     /\ 0 <= tcfg.MinKeyDelay /\ tcfg.MinKeyDelay < tcfg.MaxKeyDelay) =>
        TypingDuration(keystrokes) >= tcfg.MinKeyDelay * Len(ToRunes(text))

\* C22: for every configuration with non-negative bounds and min <= max,
\* MinKeyDelay = MaxKeyDelay and MinScrollSpeed = MaxScrollSpeed = 1
\* included, and every input, the generators return without panicking.
C22_GeneratorsNeverPanic ==
    tpc # "panic" /\ spc # "panic"

-----------------------------------------------------------------------------
(* Properties of GenerateScrollSequence *)

RECURSIVE SumDelta(_, _, _)
SumDelta(as, n, direction) ==
    IF n = 0 THEN 0
    ELSE SumDelta(as, n - 1, direction)
         + (IF as[n].Direction = direction THEN as[n].Delta ELSE 0)

\* C2: for every positive distance and every enabled ScrollingConfig, the
\* "down" deltas of the returned sequence minus its "up" deltas add up to
\* the distance exactly.
C2_NetScrollEqualsDistance ==
    (spc = "done" /\ scfg.Enabled /\ sdist > 0) =>
        SumDelta(actions, Len(actions), "down")
            - SumDelta(actions, Len(actions), "up") = sdist

\* C20: the distance is signed: for every distance D <= 0 and every enabled
\* ScrollingConfig, the "down" deltas of the returned sequence minus its "up"
\* deltas add up to D.
C20_SignedScrollEqualsDistance ==
    (spc = "done" /\ scfg.Enabled /\ sdist <= 0) =>
        SumDelta(actions, Len(actions), "down")
            - SumDelta(actions, Len(actions), "up") = sdist

\* C21: with scrolling disabled, GenerateScrollSequence(D) returns exactly
\* one action, whose Delta is D and whose Duration is 0, for positive, zero
\* and negative D.
C21_DisabledSingleAction ==
    (spc = "done" /\ ~scfg.Enabled) =>
        /\ Len(actions) = 1
        /\ actions[1].Delta = sdist
        /\ actions[1].Duration = 0

\* GenerateScrollSequence returned for a negative distance, scrolling disabled
C21_Witness ==
    /\ spc = "done" /\ ~scfg.Enabled /\ sdist < 0
    /\ actions = <<ScrollAction(sdist, 0, "down")>>

\* C30: every forward chunk GenerateScrollSequence emits is at least 10 and
\* at most the distance remaining when it is emitted: the remaining distance
\* never becomes negative and the forward deltas never add up to more than
\* the requested distance.
C30_ChunksWithinRemaining ==
    (spc \in {"gen", "done"} /\ scfg.Enabled /\ sdist > 0) =>
        /\ \A i \in 1..Len(actions) :
              actions[i].Direction = "down" => actions[i].Delta >= 10
        /\ remaining >= 0
        /\ SumDelta(actions, Len(actions), "down") <= sdist

-----------------------------------------------------------------------------
(* Properties of the quota gate *)

\* C3: starting from zeroed counters, once DailyLimit actions were recorded
\* on a calendar day the gate answers false for the rest of that day; and the
\* first time the gate is asked on the day after the last reset it answers
\* true with both counters at 0.
C3_DailyLimitGate ==
    (gate.result # "none" /\ qlim.DailyLimit >= 1 /\ qlim.HourlyLimit >= 1) =>
        /\ (gate.recorded = qlim.DailyLimit => gate.result = "closed")
        /\ (DateOf(gate.at) = DateOf(gate.stampBefore) + 1 =>
                gate.result = "open" /\ dailyCount = 0 /\ hourlyCount = 0)

-----------------------------------------------------------------------------
(* Properties of TimingController.Sleep *)

\* C4: Sleep returns the cancellation error whenever the context was
\* cancelled before the wait completed (also when it was cancelled at the
\* call, and for d = 0), and nil only when d elapsed without a cancellation.
C4_SleepHonoursCancellation ==
    slpc = "returned" => (slret = "canceled" <=> slctx)

\* the range the entry point slapi hands to RandomDelay
DelayRange ==
    IF slapi = "SleepAction"
    THEN [min |-> slcfg.MinActionDelay, max |-> slcfg.MaxActionDelay]
    ELSE [min |-> slcfg.MinThinkTime, max |-> slcfg.MaxThinkTime]

\* C25: for min < max and HumanVariation v in [0, 1] the delay d that
\* RandomDelay(min, max) returns, through ActionDelay and ThinkDelay over
\* their configured ranges, satisfies min <= d <= max x (1 + v), hence
\* d <= 2 x max; for min >= max it is min.
C25_RandomDelayWithinBounds ==
    (slpc \in {"parked", "returned"} /\ slapi \in {"SleepAction", "SleepThink"}) =>
        IF DelayRange.min >= DelayRange.max
        THEN sld = DelayRange.min
        ELSE /\ DelayRange.min <= sld
             /\ sld * 1000 <= DelayRange.max * (1000 + slcfg.HumanVariation)
             /\ sld <= 2 * DelayRange.max

\* an action delay that the variation carried above MaxActionDelay
C25_Witness ==
    /\ slpc \in {"parked", "returned"} /\ slapi = "SleepAction"
    /\ slcfg.HumanVariation > 0
    /\ sld > slcfg.MaxActionDelay

-----------------------------------------------------------------------------
(* Properties of the ActivityScheduler *)

\* C6: when TakeBreak returns the cancellation error, breaksTaken and
\* lastBreak are what they were before the call.
C6_CancelledBreakLeavesState ==
    (bpc = "returned" /\ bret = "canceled") =>
        breaksTaken = bpre.breaksTaken /\ lastBreak = bpre.lastBreak

\* the weekday and the hour are within the configured ones at the instant
\* hnow, read at the given offset from UTC
InWindow(offset) ==
    /\ \E k \in DOMAIN hcfg.WorkDays : hcfg.WorkDays[k] = WeekdayIn(hnow, offset)
    /\ hcfg.StartHour <= HourIn(hnow, offset)
    /\ HourIn(hnow, offset) < hcfg.EndHour

\* C7, as stated: for every schedule configuration (of a timezone that
\* loads) IsWithinWorkingHours() is true if and only if the weekday in the
\* configured timezone is in WorkDays and StartHour <= hour < EndHour.
C7_AsStated ==
    (hpc = "done" /\ LoadLocation(hcfg.Timezone).ok) =>
        (hwithin <=> InWindow(LoadLocation(hcfg.Timezone).offset))

\* C7, amended: with the schedule disabled IsWithinWorkingHours() is true;
\* with it enabled it is true if and only if the weekday is in WorkDays and
\* StartHour <= hour < EndHour, both read in the configured timezone, or in
\* the local one when the configured timezone does not load.
C7_WorkingHoursGate ==
    hpc = "done" =>
        (hwithin <=>
            \/ ~hcfg.Enabled
            \/ InWindow(IF LoadLocation(hcfg.Timezone).ok
                        THEN LoadLocation(hcfg.Timezone).offset ELSE hlocal))

\* an enabled schedule in Tokyo is within working hours at an instant that
\* is before the start hour in UTC
C7_Witness ==
    /\ hpc = "done" /\ hcfg.Enabled /\ hcfg.Timezone = "Asia/Tokyo"
    /\ hwithin /\ HourIn(hnow, 0) < hcfg.StartHour

\* the offset of the location the scheduler reads the clock in
ScheduleOffset ==
    IF LoadLocation(hcfg.Timezone).ok THEN LoadLocation(hcfg.Timezone).offset ELSE hlocal

\* the instant t is inside the working window of the schedule
InWindowAt(t) ==
    /\ isWorkDay(hcfg, WeekdayIn(t, ScheduleOffset))
    /\ hcfg.StartHour <= HourIn(t, ScheduleOffset)
    /\ HourIn(t, ScheduleOffset) < hcfg.EndHour

\* the instant t is StartHour:00 on a configured weekday
IsWindowStart(t) ==
    /\ isWorkDay(hcfg, WeekdayIn(t, ScheduleOffset))
    /\ HourIn(t, ScheduleOffset) = hcfg.StartHour

\* the earliest window start after the instant t (0 when there is none
\* within eight days)
EarliestStartAfter(t) ==
    LET later == {u \in (t + 1)..(t + 8 * 24) : IsWindowStart(u)}
    IN  IF later = {} THEN 0
        ELSE CHOOSE u \in later : \A v \in later : u <= v

C37_NilOnlyInsideWorkingHours ==
    (hpc = "returned" /\ hret = "nil" /\ hcfg.Enabled) =>
        IsWithinWorkingHours(hcfg, hnow, hlocal)

\* the same for the schedules that have a working window at all
C37_NilInsideWhenWindowExists ==
    (/\ hpc = "returned" /\ hret = "nil" /\ hcfg.Enabled
     /\ Len(hcfg.WorkDays) > 0 /\ hcfg.StartHour < hcfg.EndHour) =>
        IsWithinWorkingHours(hcfg, hnow, hlocal)

\* C35: the n-th TakeBreak of a session sleeps within [1, 5) minutes for
\* n = 1, [2, 15) for n = 2 and 3, [5, 20) for n >= 4; neither end of the
\* range ever decreases with n; each call adds exactly 1 to breaksTaken.
C35_BreakDurationRanges ==
    /\ bpc \in {"parked", "returned"} =>
          /\ breaksTaken = bpre.breaksTaken + 1
          /\ IF breaksTaken = 1 THEN bdur >= 1 /\ bdur < 5
             ELSE IF breaksTaken \in {2, 3} THEN bdur >= 2 /\ bdur < 15
             ELSE bdur >= 5 /\ bdur < 20
          /\ bret = "nil" => bnow - lastBreak = bdur
    /\ \A n \in 0..breaksTaken :
          /\ BreakRange(n).min <= BreakRange(n + 1).min
          /\ BreakRange(n).max <= BreakRange(n + 1).max

\* the fourth break of the session was slept to its end, 19 minutes
C35_Witness ==
    bpc = "returned" /\ bret = "nil" /\ breaksTaken = 4 /\ bdur = 19

\* C36: once TakeBreak has started a break at T (lastBreak), a
\* ShouldTakeBreak call at an instant no later than T + 20 minutes returns
\* false.
C36_NoBreakWithinTwentyMinutes ==
    [][(bask' # bask /\ lastBreak # Never /\ bnow <= lastBreak + 20)
          => ~bask'.result]_vars

\* asked 20 minutes sharp after a break began, warm-up long over: no
C36_Witness ==
    /\ bpc = "idle" /\ brandom /\ lastBreak # Never
    /\ bask.at = lastBreak + 20 /\ bask.at - activityStart >= 15
    /\ ~bask.result

\* C24: a ShouldTakeBreak call made less than 15 minutes after the scheduler
\* was constructed returns false, whatever the draws and however long ago
\* the last break was.
C24_NoBreakDuringWarmUp ==
    (bask.at # Never /\ bask.at - activityStart < 15) => ~bask.result

\* ShouldTakeBreak was asked during the warm-up of a scheduler with
\* RandomBreaks on that never took a break
C24_Witness ==
    /\ brandom /\ lastBreak = Never
    /\ bask.at # Never /\ bask.at - activityStart < 15 /\ ~bask.result

-----------------------------------------------------------------------------
(* Properties of GeneratePath *)

NoNaN(pts) == \A i \in 1..Len(pts) : ~IsNaN(pts[i].X) /\ ~IsNaN(pts[i].Y)

\* the point a is within one pixel of b on each axis
Near(a, b) == abs(a.X - b.X) <= 1000 /\ abs(a.Y - b.Y) <= 1000

\* C8, as stated: for every MouseMovementConfig and point p, GeneratePath(p, p)
\* is exactly [p, p], and holds no NaN.
C8_AsStated ==
    (ppc = "done" /\ pstart = pend) =>
        /\ path = <<Pixels(pstart[1], pstart[2]), Pixels(pstart[1], pstart[2])>>
        /\ NoNaN(path)

\* C8, amended: GeneratePath(p, p) holds no NaN and every point of it is
\* within one pixel of p on each axis; it is exactly [p, p] when the
\* controller is disabled, and when it is enabled it has at least 31 points,
\* the first and the last being p exactly when micro-movements are off.
C8_ZeroDistancePath ==
    (ppc = "done" /\ pstart = pend) =>
        LET p == Pixels(pstart[1], pstart[2]) IN
        /\ NoNaN(path)
        /\ \A i \in 1..Len(path) : Near(path[i], p)
        /\ (~pcfg.Enabled => path = <<p, p>>)
        /\ (pcfg.Enabled => Len(path) >= 31)
        /\ ((pcfg.Enabled /\ ~pcfg.MicroMovements) =>
                path[1] = p /\ path[Len(path)] = p)

\* a zero-distance path with overshoot, jitter and at least one tremor point
C8_Witness ==
    /\ ppc = "done" /\ pstart = pend /\ pcfg.Enabled
    /\ pover /\ pcfg.MicroMovements /\ Len(path) > 52

\* C9, as stated: enabled, overshoot and micro-movements off, start # end:
\* the path has between 30 and 200 points, the first is start, the last end.
C9_AsStated ==
    (ppc = "done" /\ pcfg.Enabled /\ ~pcfg.OvershootEnabled
        /\ ~pcfg.MicroMovements /\ pstart # pend) =>
        /\ Len(path) >= 30 /\ Len(path) <= 200
        /\ path[1] = Pixels(pstart[1], pstart[2])
        /\ path[Len(path)] = Pixels(pend[1], pend[2])

\* C9, amended: enabled, overshoot and micro-movements off, start # end:
\* the path has between 31 and 201 points, the first is start, the last end.
C9_PathLengthAndEnds ==
    (ppc = "done" /\ pcfg.Enabled /\ ~pcfg.OvershootEnabled
        /\ ~pcfg.MicroMovements /\ pstart # pend) =>
        /\ Len(path) >= 31 /\ Len(path) <= 201
        /\ path[1] = Pixels(pstart[1], pstart[2])
        /\ path[Len(path)] = Pixels(pend[1], pend[2])

\* the path from (0,0) to (1000,800) of the plain controller: 201 points
C9_Witness ==
    /\ ppc = "done" /\ pcfg.Enabled /\ ~pcfg.OvershootEnabled
    /\ ~pcfg.MicroMovements /\ pcfg.BezierComplexity = 3
    /\ pstart = <<0, 0>> /\ pend = <<1000, 800>> /\ Len(path) = 201

\* C10: enabled, start # end: the first point is within one pixel of start on
\* each axis, and whenever the overshoot branch was taken the last point is
\* end exactly, whatever MicroMovements is.
C10_StartNearEndExact ==
    (ppc = "done" /\ pcfg.Enabled /\ pstart # pend) =>
        /\ Near(path[1], Pixels(pstart[1], pstart[2]))
        /\ (pover => path[Len(path)] = Pixels(pend[1], pend[2]))

\* C29: whenever the overshoot branch is taken for start # end, the point
\* addOvershoot appends lies strictly beyond the target, and the 20 points
\* of the corrective sub-path follow it, the last one being the target
\* (read off the returned path when micro-movements are off).
C29_OvershootBeyondTarget ==
    (ppc = "done" /\ pcfg.Enabled /\ pover /\ ~pcfg.MicroMovements /\ pstart # pend) =>
        LET target == Pixels(pend[1], pend[2])
            k      == Len(path) - 20
        IN  /\ k > 1
            /\ path[k] # target
            /\ (pend[1] > pstart[1] => path[k].X >= target.X)
            /\ (pend[1] < pstart[1] => path[k].X <= target.X)
            /\ (pend[2] > pstart[2] => path[k].Y >= target.Y)
            /\ (pend[2] < pstart[2] => path[k].Y <= target.Y)
            /\ path[Len(path)] = target

-----------------------------------------------------------------------------
(* Properties of ExponentialBackoff *)

\* C11: for base > 0, cap >= base, attempts a < b and all jitter draws,
\* ExponentialBackoff(a, base, cap) <= ExponentialBackoff(b, base, cap).
C11_BackoffNonDecreasing ==
    (ebpc = "idle" /\ ebprev.attempt >= 0) => ebprev.result <= ebresult

\* C12: for every attempt >= 0 the result r satisfies m <= r <= 1.3 * m with
\* m = min(base * 2^attempt, cap); so r is positive and at most 1.3 * cap.
C12_BackoffWithinJitterBand ==
    (ebpc = "idle" /\ ebattempt >= 0) =>
        LET exact == ebbase * Pow2(ebattempt)
            m     == IF exact > ebcap THEN ebcap ELSE exact
        IN  /\ m <= ebresult
            /\ 10 * ebresult <= 13 * m
            /\ ebresult > 0
            /\ 10 * ebresult <= 13 * ebcap

-----------------------------------------------------------------------------
(* Properties of the quota counters *)

\* a step that runs checkAndResetCounts: a gate check or a quota query
CheckStep == CanSend \/ SendBegin \/ GetRemainingQuota

\* C13: every check made on a calendar date other than that of lastReset
\* leaves both counters at zero and lastReset at the instant of the check.
C13_NewDateResets ==
    [][(CheckStep /\ DateOf(qnow) # DateOf(lastReset)) =>
          (dailyCount' = 0 /\ hourlyCount' = 0 /\ lastReset' = qnow)]_vars

\* C14, as stated: GetRemainingQuota leaves dailyCount, hourlyCount and
\* lastReset unchanged in every state.
C14_AsStated ==
    [][GetRemainingQuota => UNCHANGED <<dailyCount, hourlyCount, lastReset>>]_vars

\* C14, amended: GetRemainingQuota leaves dailyCount, hourlyCount and
\* lastReset unchanged when it is called in the calendar hour of lastReset;
\* otherwise it may only zero a counter and re-stamp lastReset with the
\* instant of the call, a counter being zeroed only with the re-stamp, and
\* hourlyCount whenever dailyCount is.
C14_QuotaQueryOnlyResets ==
    [][GetRemainingQuota =>
          /\ (qnow = lastReset => UNCHANGED <<dailyCount, hourlyCount, lastReset>>)
          /\ dailyCount' \in {dailyCount, 0}
          /\ hourlyCount' \in {hourlyCount, 0}
          /\ lastReset' \in {lastReset, qnow}
          /\ (lastReset' = lastReset => UNCHANGED <<dailyCount, hourlyCount>>)
          /\ (dailyCount' # dailyCount => hourlyCount' = 0)]_vars

\* the quota was queried after recorded actions and an hour boundary: it
\* reports the whole hourly limit and the daily limit less the actions
C14_Witness ==
    /\ qpc = "idle" /\ dailyCount > 0 /\ hourlyCount = 0 /\ lastReset = qnow
    /\ qlim.HourlyLimit > 0
    /\ quota = <<qlim.DailyLimit - dailyCount, qlim.HourlyLimit>>

\* C15: with HourlyLimit < DailyLimit, once HourlyLimit actions were recorded
\* in a calendar hour the gate answers false for the rest of that hour; and
\* the first check in a later hour of the day of lastReset leaves hourlyCount
\* at 0 and answers true exactly when dailyCount < DailyLimit.
C15_HourlyLimitGate ==
    (gate.result # "none" /\ qlim.HourlyLimit >= 1
        /\ qlim.HourlyLimit < qlim.DailyLimit) =>
        /\ (gate.recordedHour = qlim.HourlyLimit => gate.result = "closed")
        /\ ((DateOf(gate.at) = DateOf(gate.stampBefore) /\ gate.at > gate.stampBefore) =>
                /\ hourlyCount = 0
                /\ (gate.result = "open" <=> dailyCount < qlim.DailyLimit))

\* C16: the counters change only by +1, both together, when an action is
\* recorded, or by a check that observes an hour or a date other than that
\* of lastReset, which re-stamps lastReset and zeroes hourlyCount, and
\* dailyCount only when the date differs; in the calendar hour of lastReset
\* neither counter decreases.
C16_CountersMonotoneWithinWindow ==
    [][(dailyCount' # dailyCount \/ hourlyCount' # hourlyCount) =>
          \/ (dailyCount' = dailyCount + 1 /\ hourlyCount' = hourlyCount + 1)
          \/ /\ lastReset' = qnow
             /\ hourlyCount' = 0
             /\ dailyCount' \in {dailyCount, 0}
             /\ (DateOf(qnow) # DateOf(lastReset) \/ HourOf(qnow) # HourOf(lastReset))
             /\ (dailyCount' # dailyCount => DateOf(qnow) # DateOf(lastReset))]_vars

\* a gate check observed an hour boundary after recorded actions: it zeroed
\* hourlyCount and kept dailyCount
C16_Witness ==
    /\ gate.result # "none" /\ gate.at = qnow /\ gate.stampBefore # qnow
    /\ DateOf(gate.stampBefore) = DateOf(qnow)
    /\ lastReset = qnow /\ hourlyCount = 0 /\ dailyCount > 0

\* C17: the number of requests recorded (incrementCount) within one calendar
\* day never exceeds the daily limit, wherever midnight falls between the
\* gate check of a request and its recording.
C17_DailyRecordingsWithinLimit ==
    recToday <= qlim.DailyLimit

\* C38: under a single driver that records an action only after the gate
\* returned true, and for non-negative limits, in every reachable state
\* 0 <= hourlyCount <= dailyCount <= dailyLimit and hourlyCount <=
\* hourlyLimit, and GetRemainingQuota never returns a negative number.
C38_CountersWithinLimits ==
    qpc # "off" =>
        /\ 0 <= hourlyCount /\ hourlyCount <= dailyCount
        /\ dailyCount <= qlim.DailyLimit
        /\ hourlyCount <= qlim.HourlyLimit
        /\ quota[1] >= 0 /\ quota[2] >= 0

\* both limits are used up, the last request having been recorded in a
\* later hour than the one its gate stamped
C38_Witness ==
    /\ qpc = "idle" /\ qlim.DailyLimit = 2 /\ qlim.HourlyLimit = 1
    /\ dailyCount = 2 /\ hourlyCount = 1
    /\ HourOf(lastReset) # HourOf(qnow)
    /\ gate.result = "none" /\ recToday = 2

-----------------------------------------------------------------------------
(* Properties of SearchAll *)

\* C39: SearchAll returns every profile that was newly discovered, and saved
\* to storage by Search, during the call, each exactly once.
C39_ReturnsEveryNewProfileOnce ==
    (sapc = "done" /\ ~saerr) =>
        \A i \in 1..Len(sanew) :
            Cardinality({k \in 1..Len(saret) : saret[k].ProfileURL = sanew[i]}) = 1

\* what SearchAll does return when it returns without error
C39_ReturnsNothingStored ==
    (sapc = "done" /\ ~saerr) => saret = <<>>

-----------------------------------------------------------------------------
(* Properties of ProcessProfiles *)

\* C40: if ctx is cancelled while ProcessProfiles handles a profile whose
\* connection request has not been sent, that profile is not marked
\* processed in storage; ProcessProfiles then returns the cancellation error
\* without touching further profiles.
C40_CancelledProfileStaysUnprocessed ==
    (pppc = "done" /\ ppcancelAt # 0) =>
        /\ ppprofiles[ppcancelAt] \notin ppprocessed
        /\ ppret = "canceled"
        /\ \A j \in (ppcancelAt + 1)..Len(ppprofiles) :
              ppprofiles[j] \notin ppprocessed \cup ppsent

\* the second half alone: the cancellation error is returned and no further
\* profile is touched
C40_CancelStopsTheBatch ==
    (pppc = "done" /\ ppcancelAt # 0) =>
        /\ ppret = "canceled" /\ ppi = ppcancelAt
        /\ \A j \in (ppcancelAt + 1)..Len(ppprofiles) :
              ppprofiles[j] \notin ppprocessed \cup ppsent

-----------------------------------------------------------------------------
(* Properties of Storage *)

NoURLTwice(list) == \A i, j \in 1..Len(list) : list[i].url = list[j].url => i = j

\* C27: when two callers run AddProfile, AddConnection or AddMessage
\* concurrently on one Storage and both have returned (without error), the
\* stored list holds the items of both calls, and no profile URL twice.
C27_ConcurrentAddsKeepBoth ==
    (\A c \in Callers : stpc[c] = "done") =>
        /\ \A c \in Callers :
              IF stop = "AddMessage"
              THEN \E i \in 1..Len(stfile) : stfile[i] = StoredItem(starg[c], c)
              ELSE HasURL(stfile, starg[c])
        /\ stop = "AddProfile" => NoURLTwice(stfile)

-----------------------------------------------------------------------------
(* Properties of filterDuplicates *)

\* the results that are the first of their URL, the URL non-empty and not
\* in storage, in input order
FirstNewOccurrences ==
    SelectSeq(fresults,
        LAMBDA r : /\ r.ProfileURL # ""
                   /\ r.ProfileURL \notin fstored
                   /\ \A j \in 1..(r.Name - 1) : fresults[j].ProfileURL # r.ProfileURL)

-----------------------------------------------------------------------------
(* Properties of GenerateSmoothScrollSteps *)

RECURSIVE SumSteps(_, _)
SumSteps(steps, n) == IF n = 0 THEN 0 ELSE SumSteps(steps, n - 1) + steps[n]

\* C31: with SmoothScrolling on, for every non-zero chunk d, up or down,
\* GenerateSmoothScrollSteps(d) returns between 5 and 50 sub-steps that add
\* up to d exactly; with SmoothScrolling off it returns the single step d.
C31_SmoothStepsSumToDelta ==
    sspc = "done" =>
        IF sssmooth
        THEN /\ Len(sssteps) >= 5 /\ Len(sssteps) <= 50
             /\ SumSteps(sssteps, Len(sssteps)) = ssdelta
        ELSE sssteps = <<ssdelta>>

\* a downward chunk of 1100 came back as 50 sub-steps
C31_Witness ==
    /\ sspc = "done" /\ sssmooth /\ ssdelta = 1100
    /\ Len(sssteps) = 50 /\ SumSteps(sssteps, 50) = 1100

\* C32: every sub-step GenerateSmoothScrollSteps(d) returns moves in the
\* direction of d or is zero, and after every prefix of sub-steps the amount
\* scrolled so far lies between 0 and d, for upward chunks (d < 0) as for
\* downward ones.
C32_SmoothStepsMonotone ==
    sspc = "done" =>
        \A k \in 1..Len(sssteps) :
            IF ssdelta > 0
            THEN sssteps[k] >= 0 /\ SumSteps(sssteps, k) >= 0
                                /\ SumSteps(sssteps, k) <= ssdelta
            ELSE sssteps[k] <= 0 /\ SumSteps(sssteps, k) <= 0
                                /\ SumSteps(sssteps, k) >= ssdelta

=============================================================================
